---- MODULE Spec2Model ----
(***************************************************************************)
(* A model of rag-mcp-server: the crawl engine (FirecrawlService), the     *)
(* ingest path (RagAgent.addDocument / addDocuments, EmbeddingService,     *)
(* DatabaseService), the rag_add_documents and rag_delete_document tool    *)
(* handlers, RagAgent.query with the Redis result cache, deleteDocument    *)
(* and indexWebsite.                                                       *)
(***************************************************************************)
EXTENDS Integers, Sequences, FiniteSets, TLC

(***************************************************************************)
(* Bounds of the model.                                                    *)
(***************************************************************************)
\* the largest maxDepth option tried
MaxDepthBound == 2
\* the largest maxPages option tried
MaxPagesBound == 3
\* the largest number of links on one page
MaxLinks == 2

(***************************************************************************)
(* URLs.  A URL is a sequence of characters; its first character stands    *)
(* for the hostname, the rest for the path.  BadSeed is a string that      *)
(* new URL() rejects.                                                      *)
(***************************************************************************)
PageA == <<"e", "a">>
PageB == <<"e", "b">>
PageD == <<"e", "a", "b">>
PageC == <<"o", "c">>
BadSeed == <<"?">>
Urls == {PageA, PageB, PageC, PageD}

\* new URL(u) succeeds
ValidUrl(u) == u \in Urls

\* new URL(u).hostname
Hostname(u) == u[1]

\* String.prototype.includes: p occurs in s as a contiguous substring
Includes(s, p) ==
    \E i \in 0..(Len(s) - Len(p)) : SubSeq(s, i + 1, i + Len(p)) = p

\* the sequences over S of length at most n
RECURSIVE SeqsUpTo(_, _)
SeqsUpTo(S, n) ==
    IF n = 0 THEN {<<>>}
    ELSE LET shorter == SeqsUpTo(S, n - 1)
         IN  shorter \cup {Append(s, x) : s \in shorter, x \in S}

NoRepeat(s) == \A i, j \in 1..Len(s) : i # j => s[i] # s[j]

\* page.links: absolute URLs, unique ([...new Set(links)])
LinkSeqs == {s \in SeqsUpTo(Urls, MaxLinks) : NoRepeat(s)}

(***************************************************************************)
(* What scrapePage answers for a URL: null (the catch branch) or a page.   *)
(* "unknown" marks a URL nobody has fetched yet; the answer is drawn at    *)
(* the first fetch and kept, so that the site is one fixed link graph.     *)
(***************************************************************************)
NullResp == [kind |-> "null", links |-> <<>>]
UnknownResp == [kind |-> "unknown", links |-> <<>>]
PageResp(ls) == [kind |-> "page", links |-> ls]
Responses == {NullResp} \cup {PageResp(ls) : ls \in LinkSeqs}

\* a page whose <title>, first <h1> and content elements hold no text:
\* scrapePage returns it with title '' and content ''
TextlessResp(ls) == [kind |-> "page", links |-> ls, title |-> <<>>, content |-> <<>>]

CrawlIds == {1, 2}
NoTask == [url |-> <<>>, depth |-> 0]

\* ScrapeOptions defaults
DefaultMaxDepth == 2
DefaultMaxPages == 50
DefaultOptions ==
    [maxDepth |-> DefaultMaxDepth, maxPages |-> DefaultMaxPages,
     includePaths |-> {}, excludePaths |-> {}]

VARIABLES
    visitedUrls,   \* FirecrawlService.visitedUrls: one set for the instance
    site,          \* the web site: URL -> response of scrapePage
    running,       \* the crawl invocation holding the JS thread, 0 if none
    cpc,           \* per invocation: where crawlWebsite stands
    seed,          \* per invocation: startUrl
    opts,          \* per invocation: the options after defaulting
    queue,         \* per invocation: the local queue
    results,       \* per invocation: the local results (depth is a ghost field)
    cur,           \* per invocation: the task being fetched
    clog           \* per invocation: history of fetch attempts and delays

crawlVars == <<visitedUrls, site, running, cpc, seed, opts, queue, results, cur, clog>>

VARIABLES
    provider,      \* EmbeddingService.provider: "local" or "openai"
    maxBatchSize,  \* the per-call ceiling of the active provider
    calls,         \* the addDocument / addDocuments calls in progress
    documents,     \* committed rows of rag.documents (by is a ghost field)
    embeddings,    \* committed rows of rag.embeddings (by is a ghost field)
    docSeq,        \* last value of the SERIAL sequence of rag.documents.id
    tool           \* the rag_add_documents request being handled

ingestVars == <<provider, maxBatchSize, calls, documents, embeddings, docSeq, tool>>

VARIABLES
    isInitialized, \* RagAgent.isInitialized
    initPc,        \* where RagAgent.initialize stands
    isConnected,   \* RedisCacheService.isConnected
    cache,         \* the entries of the Redis database (by is a ghost field)
    queries,       \* the query calls
    dels,          \* the deleteDocument calls and rag_delete_document requests
    env,           \* process.env: the settings of the deployment
    now,           \* the clock of the Redis server, in seconds
    proc           \* the server process: its shutdown handlers and its resources

queryVars == <<isInitialized, initPc, isConnected, cache, queries, dels, env, now, proc>>
queryVarsButDels == <<isInitialized, initPc, isConnected, cache, queries, env, now, proc>>
vars == <<crawlVars, ingestVars, queryVars>>

(***************************************************************************)
(* Documents.  A content is a sequence of characters; a metadata value is  *)
(* absent ("undef") or an object with a title ("titled"); a source is      *)
(* absent ("none") or a URL.                                               *)
(***************************************************************************)
\* the largest number of documents in one batch or one tool request
MaxDocs == 2
\* the largest per-call ceiling of the embedding provider tried
MaxBatchBound == 2

DocX == [content |-> <<"x">>, metadata |-> "titled", source |-> "s1"]
DocY == [content |-> <<"y">>, metadata |-> "undef", source |-> "none"]
DocEmpty == [content |-> <<>>, metadata |-> "undef", source |-> "none"]
DocBlank == [content |-> <<" ">>, metadata |-> "titled", source |-> "s1"]
DocInputs == {DocX, DocY, DocEmpty, DocBlank}

\* !text || text.trim().length === 0  (trim removes blanks and line ends)
IsBlank(text) == \A i \in 1..Len(text) : text[i] \in {" ", "\n"}

\* the vector the provider p computes for a text: a fixed function of both
EmbedOf(p, text) == <<p, text>>

\* JSON.stringify(metadata || {})
StoredMetadata(m) == IF m = "undef" THEN "empty" ELSE m

\* metadata?.['title'] || null
TitleOf(m) == IF m = "titled" THEN "T" ELSE "null"

\* the row INSERT INTO rag.documents writes for input d, with the id the
\* sequence gave it
DocRow(id, d, k) ==
    [id |-> id, content |-> d.content, metadata |-> StoredMetadata(d.metadata),
     source |-> d.source, title |-> TitleOf(d.metadata), by |-> k]

\* the row INSERT INTO rag.embeddings writes
EmbRow(id, e, k) == [document_id |-> id, embedding |-> e, by |-> k]

CallIds == 1..MaxDocs

\* a call at its first await: op is "addDocument" or "addDocuments"
NewCall(op, docs) ==
    [op |-> op, pc |-> "embed", docs |-> docs, embs |-> <<>>, at |-> 0,
     ids |-> <<>>, txDocs |-> {}, txEmbs |-> {}, ret |-> "none", err |-> "none",
     sent |-> <<>>]

NoCall == [NewCall("none", <<>>) EXCEPT !.pc = "idle"]

NoTool == [pc |-> "off", docs |-> <<>>, ids |-> <<>>]

InitStore ==
    /\ documents = {}
    /\ embeddings = {}
    /\ docSeq = 0

InitIngestIdle ==
    /\ provider = "local"
    /\ maxBatchSize = 1
    /\ calls = [k \in CallIds |-> NoCall]
    /\ tool = NoTool
    /\ InitStore

(***************************************************************************)
(* The query path: the data of RagAgent.query, DatabaseService             *)
(* .searchSimilar and RedisCacheService.  Similarities and distances are   *)
(* counted in hundredths.                                                  *)
(***************************************************************************)
\* the largest topK asked for
MaxTopK == 2
\* the largest number of documents stored before the queries start
MaxCorpus == 4

QueryIds == {1, 2, 3}
DelIds == {1, 2}

QueryX == <<"x">>
QueryXY == <<"x", "y">>
QueryEmpty == <<>>
QueryTexts == {QueryX, QueryXY, QueryEmpty}

\* similarityThreshold = 0.7 when the caller gives none
DefaultThreshold == 70
Thresholds == {0, DefaultThreshold}

\* the documents of the corpus, in the order they were added
CorpusDocs ==
    << [content |-> <<"y">>, metadata |-> "undef", source |-> "none"],
       [content |-> <<"x">>, metadata |-> "titled", source |-> "s1"],
       [content |-> <<"x", "y">>, metadata |-> "titled", source |-> "s1"],
       [content |-> <<"x">>, metadata |-> "undef", source |-> "s2"],
       [content |-> <<"y">>, metadata |-> "undef", source |-> "s1"] >>

\* topK.toString()
DigitChar(d) == <<"0", "1", "2", "3", "4", "5", "6", "7", "8", "9">>[d + 1]
RECURSIVE Digits(_)
Digits(n) == IF n < 10 THEN <<DigitChar(n)>>
             ELSE Digits(n \div 10) \o <<DigitChar(n % 10)>>

\* faulty variant: the parts are joined without a separator
RECURSIVE JoinNoSeparator(_)
JoinNoSeparator(parts) ==
    IF parts = <<>> THEN <<>> ELSE parts[1] \o JoinNoSeparator(Tail(parts))

\* parts.join(':')
RECURSIVE Join(_)
Join(parts) ==
    IF parts = <<>> THEN <<>>
    ELSE IF Len(parts) = 1 THEN parts[1]
    ELSE parts[1] \o <<":">> \o Join(Tail(parts))

\* `rag:${prefix}:${parts.join(':')}`
generateKey(prefix, parts) == <<"rag", ":">> \o prefix \o <<":">> \o Join(parts)

\* redisCache.generateKey('query', queryText, topK.toString())
cacheKey(queryText, topK) ==
    generateKey(<<"q", "u", "e", "r", "y">>, <<queryText, Digits(topK)>>)

\* a setting of process.env: <<>> when it is not set, <<n>> when set to n
Unset == <<>>
ValueOr(setting, default) == IF setting = Unset THEN default ELSE setting[1]

\* no cache setting is given
NoEnv == [CACHE_TTL |-> Unset, REDIS_CACHE_TTL |-> Unset]

\* ttl || parseInt(process.env['REDIS_CACHE_TTL'] || '3600'), query passes no ttl
cacheTTL(environment) == ValueOr(environment.REDIS_CACHE_TTL, 3600)

\* the cosine distance  e.embedding <=> $1  of two vectors of one provider:
\* 0 for the vectors of equal texts, small for texts that share a
\* character, above 1 for texts that share none
Chars(t) == {t[i] : i \in 1..Len(t)}
Distance(v, w) ==
    IF v[2] = w[2] THEN 0
    ELSE IF Chars(v[2]) \cap Chars(w[2]) # {} THEN 40
    ELSE 130

\* embedding.length
Dimensions(p) == IF p = "local" THEN 384 ELSE 1536

NoResult == [kind |-> "none"]

NoQuery ==
    [pc |-> "idle", text |-> <<>>, topK |-> 1, threshold |-> 0,
     includeMetadata |-> TRUE, key |-> <<>>, vec |-> <<>>, matches |-> <<>>,
     result |-> NoResult, ret |-> "none", err |-> "none", hit |-> FALSE,
     from |-> 0, log |-> <<>>]

NoDel == [op |-> "none", pc |-> "idle", id |-> 0, ret |-> "none"]

\* the signals the process handles: 1 is SIGINT, 2 is SIGTERM
SignalIds == {1, 2}

\* the process runs: no signal has arrived, the pool of connections is open
\* and end() was never called on it, quit() was never called on the Redis
\* client, no resource is broken
NoShutdown ==
    [pc |-> [s \in SignalIds |-> "idle"], ending |-> FALSE, poolEnds |-> 0,
     quits |-> 0, broken |-> FALSE, exit |-> "running"]

\* an initialised agent without a cache, no query and no delete asked for
InitQueryIdle ==
    /\ isInitialized = TRUE
    /\ initPc = "done"
    /\ isConnected = FALSE
    /\ cache = {}
    /\ queries = [q \in QueryIds |-> NoQuery]
    /\ dels = [d \in DelIds |-> NoDel]
    /\ env = NoEnv
    /\ now = 0
    /\ proc = NoShutdown

(***************************************************************************)
(* crawlWebsite, piece by piece.                                           *)
(***************************************************************************)
\* faulty variant: the page budget tested with <= instead of <
LoopCondOffByOne(q, res, o) == Len(q) > 0 /\ Len(res) <= o.maxPages

\* faulty variant: the page budget is not tested
LoopCondIgnoresBudget(q, res, o) == Len(q) > 0

\* while (queue.length > 0 && results.length < maxPages)
LoopCond(q, res, o) == Len(q) > 0 /\ Len(res) < o.maxPages

\* faulty variant: the visited test is missing
SkipTaskNoVisited(task, visited, o) ==
    \/ task.depth > o.maxDepth
    \/ \E p \in o.excludePaths : Includes(task.url, p)
    \/ /\ o.includePaths # {}
       /\ ~ \E p \in o.includePaths : Includes(task.url, p)

\* faulty variant: a URL that matches an include entry is kept although an
\* exclude entry matches it
SkipTaskIncludeWins(task, visited, o) ==
    \/ task.url \in visited
    \/ task.depth > o.maxDepth
    \/ IF \E p \in o.includePaths : Includes(task.url, p)
       THEN FALSE
       ELSE \/ \E p \in o.excludePaths : Includes(task.url, p)
            \/ o.includePaths # {}

\* the `continue` tests but the one on the depth
SkipTaskNoDepth(task, visited, o) ==
    \/ task.url \in visited
    \/ \E p \in o.excludePaths : Includes(task.url, p)
    \/ /\ o.includePaths # {}
       /\ ~ \E p \in o.includePaths : Includes(task.url, p)

\* the four `continue` tests applied to the dequeued task
SkipTask(task, visited, o) ==
    \/ task.url \in visited
    \/ task.depth > o.maxDepth
    \/ \E p \in o.excludePaths : Includes(task.url, p)
    \/ /\ o.includePaths # {}
       /\ ~ \E p \in o.includePaths : Includes(task.url, p)

\* faulty variant: every link is enqueued, whatever its hostname
RECURSIVE ChildTasksAnyHost(_, _, _)
ChildTasksAnyHost(links, url, depth) ==
    IF links = <<>> THEN <<>>
    ELSE <<[url |-> Head(links), depth |-> depth + 1]>>
            \o ChildTasksAnyHost(Tail(links), url, depth)

\* the for-loop over page.links: same-hostname links, in page order, at depth + 1
RECURSIVE ChildTasks(_, _, _)
ChildTasks(links, url, depth) ==
    IF links = <<>> THEN <<>>
    ELSE LET rest == ChildTasks(Tail(links), url, depth)
         IN  IF Hostname(Head(links)) = Hostname(url)
             THEN <<[url |-> Head(links), depth |-> depth + 1]>> \o rest
             ELSE rest

\* faulty variant: the set of an earlier run is kept
VisitedAtStartKept(visited) == visited

\* this.visitedUrls.clear()
VisitedAtStart(visited) == {}

\* this.visitedUrls.clear(); results = []; queue = [{url: startUrl, depth: 0}]
CrawlStart(c) ==
    /\ cpc[c] = "idle"
    /\ running = 0
    /\ visitedUrls' = VisitedAtStart(visitedUrls)
    /\ results' = [results EXCEPT ![c] = <<>>]
    /\ queue' = [queue EXCEPT ![c] = <<[url |-> seed[c], depth |-> 0]>>]
    /\ cpc' = [cpc EXCEPT ![c] = "loop"]
    /\ running' = c
    /\ UNCHANGED <<site, seed, opts, cur, clog, ingestVars, queryVars>>

\* the loop condition is false: return results
LoopExit(c) ==
    /\ cpc[c] = "loop"
    /\ running = c
    /\ ~ LoopCond(queue[c], results[c], opts[c])
    /\ cpc' = [cpc EXCEPT ![c] = "done"]
    /\ running' = 0
    /\ UNCHANGED <<visitedUrls, site, seed, opts, queue, results, cur, clog, ingestVars, queryVars>>

\* queue.shift() followed by one of the `continue` statements
DequeueSkip(c) ==
    /\ cpc[c] = "loop"
    /\ running = c
    /\ LoopCond(queue[c], results[c], opts[c])
    /\ SkipTask(Head(queue[c]), visitedUrls, opts[c])
    /\ queue' = [queue EXCEPT ![c] = Tail(@)]
    /\ UNCHANGED <<visitedUrls, site, running, cpc, seed, opts, results, cur, clog, ingestVars, queryVars>>

\* queue.shift(), visitedUrls.add(url), and scrapePage(url) up to its await
DequeueFetch(c) ==
    /\ cpc[c] = "loop"
    /\ running = c
    /\ LoopCond(queue[c], results[c], opts[c])
    /\ ~ SkipTask(Head(queue[c]), visitedUrls, opts[c])
    /\ queue' = [queue EXCEPT ![c] = Tail(@)]
    /\ visitedUrls' = visitedUrls \cup {Head(queue[c]).url}
    /\ cur' = [cur EXCEPT ![c] = Head(queue[c])]
    /\ clog' = [clog EXCEPT ![c] =
                  Append(@, [ev |-> "fetch", url |-> Head(queue[c]).url,
                             depth |-> Head(queue[c]).depth])]
    /\ cpc' = [cpc EXCEPT ![c] = "fetching"]
    /\ running' = 0
    /\ UNCHANGED <<site, seed, opts, results, ingestVars, queryVars>>

\* faulty variant: the page is put in front of the list (unshift)
ResultsAfterFetchInFront(res, resp, task) ==
    IF resp.kind = "page"
    THEN <<[url |-> task.url, links |-> resp.links, depth |-> task.depth]>> \o res
    ELSE res

\* if (page) results.push(page)
ResultsAfterFetch(res, resp, task) ==
    IF resp.kind = "page"
    THEN Append(res, [url |-> task.url, links |-> resp.links, depth |-> task.depth])
    ELSE res

\* faulty variant: the child links are enqueued at any depth
QueueAfterFetchAtAnyDepth(q, resp, task, o) ==
    IF resp.kind = "page" /\ ValidUrl(task.url)
    THEN q \o ChildTasks(resp.links, task.url, task.depth)
    ELSE q

\* faulty variant: the child links are put in front of the queue (depth first)
QueueAfterFetchInFront(q, resp, task, o) ==
    IF resp.kind = "page" /\ task.depth < o.maxDepth /\ ValidUrl(task.url)
    THEN ChildTasks(resp.links, task.url, task.depth) \o q
    ELSE q

\* if (page && depth < maxDepth) the same-hostname links are pushed
QueueAfterFetch(q, resp, task, o) ==
    IF resp.kind = "page" /\ task.depth < o.maxDepth /\ ValidUrl(task.url)
    THEN q \o ChildTasks(resp.links, task.url, task.depth)
    ELSE q

\* faulty variant: a failed fetch ends the crawl with what it has so far
PcAfterFetchNullReturns(resp, task, o) ==
    IF resp.kind = "null" THEN "done"
    ELSE IF task.depth < o.maxDepth /\ ~ ValidUrl(task.url) THEN "thrown"
    ELSE "delaying"

\* faulty variant: no delay after a failed fetch
PcAfterFetchNoDelayOnFailure(resp, task, o) ==
    IF resp.kind = "null" THEN "loop"
    ELSE IF task.depth < o.maxDepth /\ ~ ValidUrl(task.url) THEN "thrown"
    ELSE "delaying"

\* after the fetch: the rate-limiting timer is awaited whether the page is
\* null or not; new URL(url), outside the inner try, throws for a string
\* that is no URL
PcAfterFetch(resp, task, o) ==
    IF resp.kind = "page" /\ task.depth < o.maxDepth /\ ~ ValidUrl(task.url)
    THEN "thrown"
    ELSE "delaying"

\* scrapePage settles with null or a page; the rest of the loop body runs up
\* to the await of the timer
FetchDone(c) ==
    /\ cpc[c] = "fetching"
    /\ running = 0
    /\ \E resp \in Responses \cup ({site[cur[c].url]} \ {UnknownResp}) :
        /\ site[cur[c].url] \in {UnknownResp, resp}
        /\ site' = [site EXCEPT ![cur[c].url] = resp]
        /\ results' = [results EXCEPT ![c] = ResultsAfterFetch(@, resp, cur[c])]
        /\ queue' = [queue EXCEPT ![c] = QueueAfterFetch(@, resp, cur[c], opts[c])]
        /\ cpc' = [cpc EXCEPT ![c] = PcAfterFetch(resp, cur[c], opts[c])]
    /\ UNCHANGED <<visitedUrls, running, seed, opts, cur, clog, ingestVars, queryVars>>

\* the 1000 ms timer fires: back to the loop condition
DelayDone(c) ==
    /\ cpc[c] = "delaying"
    /\ running = 0
    /\ cpc' = [cpc EXCEPT ![c] = "loop"]
    /\ running' = c
    /\ clog' = [clog EXCEPT ![c] = Append(@, [ev |-> "delay", url |-> <<>>, depth |-> 0])]
    /\ UNCHANGED <<visitedUrls, site, seed, opts, queue, results, cur, ingestVars, queryVars>>

(***************************************************************************)
(* One crawl invocation, run alone.                                        *)
(***************************************************************************)
OptionChoices ==
    [maxDepth : 0..MaxDepthBound, maxPages : 1..MaxPagesBound,
     includePaths : {{}, {<<"a">>}}, excludePaths : {{}, {<<"b">>}}]

\* end-to-end scenario A: A links to B (same host) and C (another host)
ScenarioASeed == PageA
ScenarioAOptions ==
    [maxDepth |-> 1, maxPages |-> 10, includePaths |-> {}, excludePaths |-> {}]
ScenarioASite ==
    [u \in Urls \cup {BadSeed} |->
        IF u = PageA THEN PageResp(<<PageB, PageC>>) ELSE UnknownResp]

InitCrawlCommon ==
    /\ visitedUrls = {}
    /\ running = 0
    /\ cpc = [c \in CrawlIds |-> "idle"]
    /\ queue = [c \in CrawlIds |-> <<>>]
    /\ results = [c \in CrawlIds |-> <<>>]
    /\ cur = [c \in CrawlIds |-> NoTask]
    /\ clog = [c \in CrawlIds |-> <<>>]

\* no crawl is asked for
InitCrawlIdle ==
    /\ InitCrawlCommon
    /\ site = [u \in Urls \cup {BadSeed} |-> UnknownResp]
    /\ seed = [c \in CrawlIds |-> PageA]
    /\ opts = [c \in CrawlIds |-> DefaultOptions]

InitCrawl ==
    /\ InitCrawlCommon
    /\ InitIngestIdle
    /\ InitQueryIdle
    /\ \/ /\ site = [u \in Urls \cup {BadSeed} |-> UnknownResp]
          /\ \E s \in {PageA, PageC, BadSeed}, o \in OptionChoices :
              /\ seed = [c \in CrawlIds |-> s]
              /\ opts = [c \in CrawlIds |-> o]
       \/ /\ site = ScenarioASite
          /\ seed = [c \in CrawlIds |-> ScenarioASeed]
          /\ opts = [c \in CrawlIds |-> ScenarioAOptions]

NextCrawl ==
    \/ CrawlStart(1)
    \/ LoopExit(1)
    \/ DequeueSkip(1)
    \/ DequeueFetch(1)
    \/ FetchDone(1)
    \/ DelayDone(1)

SpecCrawl == InitCrawl /\ [][NextCrawl]_vars

(***************************************************************************)
(* crawlWebsite as one function of the seed, the options and the site:     *)
(* the loop of the actions above run to its end with nobody else touching  *)
(* visitedUrls.  A URL the site has no answer for counts as a failed fetch.*)
(***************************************************************************)
RECURSIVE CrawlLoop(_, _, _, _, _)
CrawlLoop(q, visited, res, o, st) ==
    IF ~ LoopCond(q, res, o) THEN res
    ELSE LET task == Head(q)
             resp == IF st[task.url].kind = "page" THEN st[task.url] ELSE NullResp
         IN  IF SkipTask(task, visited, o)
             THEN CrawlLoop(Tail(q), visited, res, o, st)
             ELSE CrawlLoop(QueueAfterFetch(Tail(q), resp, task, o),
                            visited \cup {task.url},
                            ResultsAfterFetch(res, resp, task), o, st)

RunAlone(s, o, st) == CrawlLoop(<<[url |-> s, depth |-> 0]>>, {}, <<>>, o, st)

(***************************************************************************)
(* Helpers of the properties.                                              *)
(***************************************************************************)
FetchIdx(log) == {i \in 1..Len(log) : log[i].ev = "fetch"}
FetchCount(log, u) == Cardinality({i \in FetchIdx(log) : log[i].url = u})
FetchedUrls(log) == {log[i].url : i \in FetchIdx(log)}
PageUrls(res) == [i \in 1..Len(res) |-> res[i].url]
PageCount(res, u) == Cardinality({i \in 1..Len(res) : res[i].url = u})
QueuedUrls(q) == {q[i].url : i \in 1..Len(q)}
IsPrefix(a, b) == Len(a) <= Len(b) /\ SubSeq(b, 1, Len(a)) = a
OtherPages(res, u) == LET Keep(p) == p.url # u IN SelectSeq(res, Keep)

\* the small-step actions and the function agree on a crawl run alone
CrawlAgreesWithRunAlone ==
    (cpc[1] = "done" /\ ValidUrl(seed[1]))
        => results[1] = RunAlone(seed[1], opts[1], site)

(***************************************************************************)
(* C1: the returned page list has at most maxPages entries and every page  *)
(* in it was dequeued with depth <= maxDepth; with maxDepth = 0 it holds   *)
(* at most the seed page.                                                  *)
(***************************************************************************)
C1_PageAndDepthBudget ==
    \A c \in CrawlIds :
        /\ Len(results[c]) <= opts[c].maxPages
        /\ \A i \in 1..Len(results[c]) : results[c][i].depth <= opts[c].maxDepth
        /\ opts[c].maxDepth = 0 =>
              /\ Len(results[c]) <= 1
              /\ \A i \in 1..Len(results[c]) : results[c][i].url = seed[c]

\* a run that returned with the page budget used up, work left in the queue
\* and a page at the depth limit
C1_Witness ==
    /\ cpc[1] = "done"
    /\ Len(results[1]) = opts[1].maxPages
    /\ Len(results[1]) >= 2
    /\ queue[1] # <<>>
    /\ \E i \in 1..Len(results[1]) :
          results[1][i].depth = opts[1].maxDepth /\ opts[1].maxDepth >= 1

(***************************************************************************)
(* C2: in a crawl run alone every URL is fetched at most once and returned *)
(* at most once, also on cyclic link graphs and when its fetch failed; a   *)
(* URL is in the visited set before its fetch starts; dequeuing a task     *)
(* whose URL is already visited fetches nothing, delays nothing and        *)
(* changes nothing but the queue.                                          *)
(***************************************************************************)
C2_OnceState ==
    /\ \A u \in Urls \cup {BadSeed} :
          /\ FetchCount(clog[1], u) <= 1
          /\ PageCount(results[1], u) <= 1
    /\ FetchedUrls(clog[1]) \subseteq visitedUrls
    /\ cpc[1] = "fetching" => cur[1].url \in visitedUrls

C2_VisitedDequeueIsNoOp ==
    ( /\ cpc[1] = "loop"
      /\ LoopCond(queue[1], results[1], opts[1])
      /\ Head(queue[1]).url \in visitedUrls )
    => /\ queue'[1] = Tail(queue[1])
       /\ UNCHANGED <<visitedUrls, site, cpc, results, cur, clog>>

C2_VisitedOnce == [](C2_OnceState) /\ [][C2_VisitedDequeueIsNoOp]_vars

\* a URL whose fetch failed was linked again by a page fetched later, below
\* the depth limit; the run ended by draining the queue, so the second task
\* of that URL was dequeued and skipped
C2_Witness ==
    /\ cpc[1] = "done"
    /\ queue[1] = <<>>
    /\ Len(results[1]) < opts[1].maxPages
    /\ \E u \in Urls :
        /\ site[u] = NullResp
        /\ \E i, j \in 1..Len(clog[1]) :
              /\ i < j
              /\ clog[1][i].ev = "fetch" /\ clog[1][i].url = u
              /\ clog[1][j].ev = "fetch" /\ site[clog[1][j].url].kind = "page"
              /\ clog[1][j].depth < opts[1].maxDepth
              /\ \E n \in 1..Len(site[clog[1][j].url].links) :
                    site[clog[1][j].url].links[n] = u

(***************************************************************************)
(* C3: every fetched page has the hostname of the seed; a link to another  *)
(* hostname stays in the links of the page that holds it and is never      *)
(* enqueued, fetched or returned.  Scenario A (A links to same-host B and  *)
(* to external C, maxDepth = 1, maxPages = 10) returns exactly A, B with C *)
(* among A's links.                                                        *)
(***************************************************************************)
C3_SameHostOnly ==
    /\ ValidUrl(seed[1]) =>
          /\ \A u \in FetchedUrls(clog[1]) \cup QueuedUrls(queue[1]) :
                Hostname(u) = Hostname(seed[1])
          /\ \A i \in 1..Len(results[1]) :
                Hostname(results[1][i].url) = Hostname(seed[1])
    /\ \A i \in 1..Len(results[1]) :
          results[1][i].links = site[results[1][i].url].links
    /\ ( /\ cpc[1] = "done"
         /\ seed[1] = ScenarioASeed
         /\ opts[1] = ScenarioAOptions
         /\ site[PageA] = PageResp(<<PageB, PageC>>)
         /\ site[PageB].kind = "page" )
       => /\ PageUrls(results[1]) = <<PageA, PageB>>
          /\ \E n \in 1..Len(results[1][1].links) : results[1][1].links[n] = PageC

\* scenario A has run to its end, and its first page carries the external link
C3_Witness ==
    /\ cpc[1] = "done"
    /\ opts[1] = ScenarioAOptions
    /\ PageUrls(results[1]) = <<PageA, PageB>>
    /\ results[1][1].links = <<PageB, PageC>>

(***************************************************************************)
(* Two crawlWebsite invocations on the one exported firecrawlService,      *)
(* overlapping in time.  The site is a fixed link graph.                   *)
(***************************************************************************)
ConcResponses == {NullResp, PageResp(<<PageB>>), PageResp(<<PageA, PageD>>)}
ConcSites ==
    {st \in [Urls \cup {BadSeed} -> ConcResponses] :
        st[PageC] = NullResp /\ st[BadSeed] = NullResp}
ConcOptions ==
    [maxDepth : 1..MaxDepthBound, maxPages : 2..MaxPagesBound,
     includePaths : {{}}, excludePaths : {{}}]

InitConc ==
    /\ InitCrawlCommon
    /\ InitIngestIdle
    /\ InitQueryIdle
    /\ site \in ConcSites
    /\ seed \in [CrawlIds -> {PageA, PageB}]
    /\ \E o \in ConcOptions : opts = [c \in CrawlIds |-> o]

NextConc ==
    \E c \in CrawlIds :
        \/ CrawlStart(c)
        \/ LoopExit(c)
        \/ DequeueSkip(c)
        \/ DequeueFetch(c)
        \/ FetchDone(c)
        \/ DelayDone(c)

SpecConc == InitConc /\ [][NextConc]_vars

(***************************************************************************)
(* C4: two overlapping crawlWebsite invocations do not interfere: each     *)
(* returns what it would return run alone, and each fetches every URL at   *)
(* most once.                                                              *)
(***************************************************************************)
C4_ConcurrentCrawlsIndependent ==
    \A c \in CrawlIds :
        /\ cpc[c] = "done" => results[c] = RunAlone(seed[c], opts[c], site)
        /\ \A u \in Urls : FetchCount(clog[c], u) <= 1

(***************************************************************************)
(* C5 as claimed: a failed fetch yields no page for its URL and never      *)
(* aborts the crawl, and the pages returned for the other URLs are the     *)
(* same as if the failed URL had had no outbound links.                    *)
(***************************************************************************)
LeafSite(u) == [site EXCEPT ![u] = PageResp(<<>>)]
FailedUrls == {u \in FetchedUrls(clog[1]) : site[u] = NullResp}

C5_NeverAborts ==
    /\ \A u \in FailedUrls : PageCount(results[1], u) = 0
    /\ cpc[1] = "thrown" => (seed[1] = BadSeed /\ site[BadSeed].kind = "page")
    /\ cpc[1] = "done" => (queue[1] = <<>> \/ Len(results[1]) >= opts[1].maxPages)

C5_FailedFetchAsLeaf ==
    /\ C5_NeverAborts
    /\ (cpc[1] = "done" /\ ValidUrl(seed[1])) =>
          \A u \in FailedUrls :
              OtherPages(results[1], u)
                 = OtherPages(RunAlone(seed[1], opts[1], LeafSite(u)), u)

(***************************************************************************)
(* C5 as amended: a failed fetch yields no page for its URL and never      *)
(* aborts the crawl; it takes nothing from the page budget, so the other   *)
(* pages of the run in which the URL is a page without links are a prefix  *)
(* of the pages returned, and equal to them when that run stays below      *)
(* maxPages.                                                               *)
(***************************************************************************)
C5_FailedFetchIsolated ==
    /\ C5_NeverAborts
    /\ (cpc[1] = "done" /\ ValidUrl(seed[1])) =>
          \A u \in FailedUrls :
              LET alt == RunAlone(seed[1], opts[1], LeafSite(u))
              IN  /\ IsPrefix(OtherPages(alt, u), results[1])
                  /\ Len(alt) < opts[1].maxPages => OtherPages(alt, u) = results[1]

\* a fetch failed in the middle of a crawl and a page fetched after it was
\* returned
C5_Witness ==
    /\ cpc[1] = "done"
    /\ \E i, j \in FetchIdx(clog[1]) :
          /\ i < j
          /\ site[clog[1][i].url] = NullResp
          /\ PageCount(results[1], clog[1][j].url) = 1

(***************************************************************************)
(* C6: crawlWebsite with a malformed seed fails with an InvalidSeed error  *)
(* before any fetch is attempted: no fetch, no delay, no page list.        *)
(***************************************************************************)
C6_InvalidSeedFailsFast ==
    seed[1] = BadSeed =>
        /\ clog[1] = <<>>
        /\ cpc[1] \notin {"fetching", "delaying", "done"}

(***************************************************************************)
(* The ingest path: RagAgent.addDocument and addDocuments, call k.         *)
(* Every await is the end of one action.                                   *)
(***************************************************************************)
Min(a, b) == IF a < b THEN a ELSE b

Texts(docs) == [i \in 1..Len(docs) |-> docs[i].content]

\* faulty variant: the chunk is everything from i on, whatever the ceiling
ChunkWholeRest(texts, i, size) == SubSeq(texts, i + 1, Len(texts))

\* texts.slice(i, i + maxBatchSize), i counted from 0
Chunk(texts, i, size) == SubSeq(texts, i + 1, Min(i + size, Len(texts)))

\* the texts of a chunk for which the local provider's pipeline is invoked:
\* generateEmbedding throws for a blank text before it reaches the pipeline
NonBlank(texts) == LET Keep(t) == ~ IsBlank(t) IN SelectSeq(texts, Keep)

\* what one round of the embedding step sends to the provider
\*   addDocument: the text, unless blank (checked for both providers)
\*   addDocuments, openai: the chunk as it is (processBatch)
\*   addDocuments, local: the chunk's non-blank texts (Promise.all of generateEmbedding)
SentTexts(c, p, size) ==
    IF c.op = "addDocument" THEN NonBlank(Texts(c.docs))
    ELSE IF p = "openai" THEN Chunk(Texts(c.docs), c.at, size)
    ELSE NonBlank(Chunk(Texts(c.docs), c.at, size))

\* faulty variant: the blank test of generateEmbedding comes after the dispatch
\* to the OpenAI service
RejectedInputAfterDispatch(c, p, size) ==
    IF c.op = "addDocument" THEN p = "local" /\ IsBlank(c.docs[1].content)
    ELSE \/ c.docs = <<>>
         \/ /\ p = "local"
            /\ \E i \in 1..Len(Chunk(Texts(c.docs), c.at, size)) :
                  IsBlank(Chunk(Texts(c.docs), c.at, size)[i])

\* the round is rejected before or without the provider's answer
\*   addDocuments: 'Texts array cannot be empty'; a blank text: 'Text cannot be empty'
RejectedInput(c, p, size) ==
    IF c.op = "addDocument" THEN IsBlank(c.docs[1].content)
    ELSE \/ c.docs = <<>>
         \/ /\ p = "local"
            /\ \E i \in 1..Len(Chunk(Texts(c.docs), c.at, size)) :
                  IsBlank(Chunk(Texts(c.docs), c.at, size)[i])

\* the vectors of one round, in the order of its texts
ChunkVectors(c, p, size) ==
    LET texts == IF c.op = "addDocument" THEN Texts(c.docs)
                 ELSE Chunk(Texts(c.docs), c.at, size)
    IN  [i \in 1..Len(texts) |-> EmbedOf(p, texts[i])]

\* faulty variant: a later chunk's results are put in front
AppendChunkInFront(acc, batchResults) == batchResults \o acc

\* results.push(...batchResults)
AppendChunk(acc, batchResults) == acc \o batchResults

\* faulty variant: the failure is swallowed and the missing vectors are replaced
EmbedFailedSwallowed(c, why, p) ==
    [c EXCEPT !.err = why, !.pc = "connect",
              !.embs = [i \in 1..Len(c.docs) |-> EmbedOf(p, <<>>)]]

\* the embedding step throws: addDocument / addDocuments log and rethrow
EmbedFailed(c, why, p) ==
    [c EXCEPT !.pc = "failed", !.ret = "error", !.err = why]

\* the round succeeded: the loop goes on with the next chunk or ends
\*   for (let i = 0; i < texts.length; i += maxBatchSize)
EmbedSucceeded(c, p, size) ==
    LET more == c.op = "addDocuments" /\ c.at + size < Len(c.docs)
    IN  [c EXCEPT !.embs = AppendChunk(@, ChunkVectors(c, p, size)),
                  !.at = IF more THEN c.at + size ELSE 1,
                  !.pc = IF more THEN "embed" ELSE "connect"]

\* the provider answers or fails; Promise.all over an empty chunk calls no
\* provider and resolves
ProviderAnswers(sent) == IF sent = <<>> THEN {TRUE} ELSE BOOLEAN

\* generateEmbedding / one chunk of generateEmbeddings
EmbedStep(k) ==
    /\ calls[k].pc = "embed"
    /\ LET c == [calls[k] EXCEPT
                    !.sent = IF SentTexts(calls[k], provider, maxBatchSize) = <<>>
                             THEN @
                             ELSE Append(@, SentTexts(calls[k], provider, maxBatchSize))]
       IN  IF RejectedInput(c, provider, maxBatchSize)
           THEN calls' = [calls EXCEPT ![k] = EmbedFailed(c, "empty", provider)]
           ELSE \E ok \in ProviderAnswers(SentTexts(calls[k], provider, maxBatchSize)) :
                  calls' = [calls EXCEPT ![k] =
                      IF ok THEN EmbedSucceeded(c, provider, maxBatchSize)
                      ELSE EmbedFailed(c, "provider", provider)]
    /\ UNCHANGED <<provider, maxBatchSize, documents, embeddings, docSeq, tool, crawlVars, queryVars>>

\* const client = await getConnection(): outside the try, no ROLLBACK on failure
Connect(k) ==
    /\ calls[k].pc = "connect"
    /\ \E ok \in BOOLEAN :
          calls' = [calls EXCEPT ![k] =
              IF ok THEN [@ EXCEPT !.pc = "begin"]
              ELSE [@ EXCEPT !.pc = "failed", !.ret = "error", !.err = "store"]]
    /\ UNCHANGED <<provider, maxBatchSize, documents, embeddings, docSeq, tool, crawlVars, queryVars>>

\* await client.query('BEGIN')
Begin(k) ==
    /\ calls[k].pc = "begin"
    /\ \E ok \in BOOLEAN :
          calls' = [calls EXCEPT ![k] =
              IF ok THEN [@ EXCEPT !.pc = IF calls[k].docs = <<>> THEN "commit" ELSE "insDoc"]
              ELSE [@ EXCEPT !.pc = "rollback"]]
    /\ UNCHANGED <<provider, maxBatchSize, documents, embeddings, docSeq, tool, crawlVars, queryVars>>

\* INSERT INTO rag.documents ... RETURNING id; documentIds.push(documentId)
InsertDoc(k) ==
    /\ calls[k].pc = "insDoc"
    /\ \E ok \in BOOLEAN :
          IF ok
          THEN /\ docSeq' = docSeq + 1
               /\ calls' = [calls EXCEPT ![k] =
                     [@ EXCEPT !.txDocs = @ \cup {DocRow(docSeq + 1, calls[k].docs[calls[k].at], k)},
                               !.ids = Append(@, docSeq + 1),
                               !.pc = "insEmb"]]
          ELSE /\ calls' = [calls EXCEPT ![k] = [@ EXCEPT !.pc = "rollback"]]
               /\ UNCHANGED docSeq
    /\ UNCHANGED <<provider, maxBatchSize, documents, embeddings, tool, crawlVars, queryVars>>

\* INSERT INTO rag.embeddings (document_id, embedding)
InsertEmb(k) ==
    /\ calls[k].pc = "insEmb"
    /\ \E ok \in BOOLEAN :
          calls' = [calls EXCEPT ![k] =
              IF ok
              THEN [@ EXCEPT !.txEmbs = @ \cup {EmbRow(calls[k].ids[calls[k].at],
                                                       calls[k].embs[calls[k].at], k)},
                             !.at = @ + 1,
                             !.pc = IF calls[k].at >= Len(calls[k].docs)
                                    THEN "commit" ELSE "insDoc"]
              ELSE [@ EXCEPT !.pc = "rollback"]]
    /\ UNCHANGED <<provider, maxBatchSize, documents, embeddings, docSeq, tool, crawlVars, queryVars>>

\* COMMIT makes the rows of the transaction visible, all at once
TableAfterCommit(table, pending) == table \cup pending

\* faulty variant: the rows written before the failure stay
TableAfterRollbackKeeps(table, pending) == table \cup pending

\* ROLLBACK discards the rows of the transaction
TableAfterRollback(table, pending) == table

\* await client.query('COMMIT'); return documentId / documentIds
Commit(k) ==
    /\ calls[k].pc = "commit"
    /\ \E ok \in BOOLEAN :
          IF ok
          THEN /\ documents' = TableAfterCommit(documents, calls[k].txDocs)
               /\ embeddings' = TableAfterCommit(embeddings, calls[k].txEmbs)
               /\ calls' = [calls EXCEPT ![k] =
                     [@ EXCEPT !.txDocs = {}, !.txEmbs = {},
                               !.pc = "returned", !.ret = "ok"]]
          ELSE /\ calls' = [calls EXCEPT ![k] = [@ EXCEPT !.pc = "rollback"]]
               /\ UNCHANGED <<documents, embeddings>>
    /\ UNCHANGED <<provider, maxBatchSize, docSeq, tool, crawlVars, queryVars>>

\* catch: await client.query('ROLLBACK'); throw error
Rollback(k) ==
    /\ calls[k].pc = "rollback"
    /\ documents' = TableAfterRollback(documents, calls[k].txDocs)
    /\ embeddings' = TableAfterRollback(embeddings, calls[k].txEmbs)
    /\ calls' = [calls EXCEPT ![k] =
          [@ EXCEPT !.txDocs = {}, !.txEmbs = {},
                    !.pc = "failed", !.ret = "error", !.err = "store"]]
    /\ UNCHANGED <<provider, maxBatchSize, docSeq, tool, crawlVars, queryVars>>

CallStep(k) ==
    \/ EmbedStep(k)
    \/ Connect(k)
    \/ Begin(k)
    \/ InsertDoc(k)
    \/ InsertEmb(k)
    \/ Commit(k)
    \/ Rollback(k)

(***************************************************************************)
(* One addDocuments call (call 1) beside one addDocument call (call 2).    *)
(***************************************************************************)
BatchInputs == SeqsUpTo(DocInputs, MaxDocs)

InitIngest ==
    /\ InitCrawlIdle
    /\ InitQueryIdle
    /\ InitStore
    /\ tool = NoTool
    /\ provider \in {"local", "openai"}
    /\ maxBatchSize \in 1..MaxBatchBound
    /\ \E batch \in BatchInputs, single \in {DocX, DocBlank, DocEmpty} :
          calls = [k \in CallIds |->
                     IF k = 1 THEN NewCall("addDocuments", batch)
                     ELSE IF k = 2 THEN NewCall("addDocument", <<single>>)
                     ELSE NoCall]

NextIngest == \E k \in CallIds : CallStep(k)

SpecIngest == InitIngest /\ [][NextIngest]_vars

(***************************************************************************)
(* The rag_add_documents tool handler:                                     *)
(*   Promise.all(documents.map(doc => ragAgent.addDocument(doc)))          *)
(* Call k is the addDocument of the k-th document of the request.          *)
(***************************************************************************)
ToolInputs == {[d EXCEPT !.source = "none"] : d \in DocInputs}
ToolChildren == 1..Len(tool.docs)

\* documents.map(...): every addDocument is started, none awaited yet
ToolStart ==
    /\ tool.pc = "idle"
    /\ calls' = [k \in CallIds |->
                   IF k \in ToolChildren
                   THEN NewCall("addDocument", <<tool.docs[k]>>)
                   ELSE calls[k]]
    /\ tool' = [tool EXCEPT !.pc = "waiting"]
    /\ UNCHANGED <<provider, maxBatchSize, documents, embeddings, docSeq, crawlVars, queryVars>>

\* Promise.all rejects with the first rejection; the other calls go on
ToolReject ==
    /\ tool.pc = "waiting"
    /\ \E k \in ToolChildren : calls[k].pc = "failed"
    /\ tool' = [tool EXCEPT !.pc = "error"]
    /\ UNCHANGED <<provider, maxBatchSize, calls, documents, embeddings, docSeq, crawlVars, queryVars>>

\* Promise.all fulfils with the ids in the order of the documents
ToolResolve ==
    /\ tool.pc = "waiting"
    /\ \A k \in ToolChildren : calls[k].pc = "returned"
    /\ tool' = [tool EXCEPT !.pc = "ok",
                            !.ids = [k \in ToolChildren |-> calls[k].ids[1]]]
    /\ UNCHANGED <<provider, maxBatchSize, calls, documents, embeddings, docSeq, crawlVars, queryVars>>

InitTool ==
    /\ InitCrawlIdle
    /\ InitQueryIdle
    /\ InitStore
    /\ provider \in {"local", "openai"}
    /\ maxBatchSize = 1
    /\ calls = [k \in CallIds |-> NoCall]
    /\ \E docs \in SeqsUpTo(ToolInputs, MaxDocs) :
          tool = [pc |-> "idle", docs |-> docs, ids |-> <<>>]

NextTool ==
    \/ ToolStart
    \/ ToolReject
    \/ ToolResolve
    \/ \E k \in CallIds : CallStep(k)

SpecTool == InitTool /\ [][NextTool]_vars

(***************************************************************************)
(* Helpers of the ingest properties.                                       *)
(***************************************************************************)
RowsBy(table, k) == {r \in table : r.by = k}
DocsWithId(id) == {r \in documents : r.id = id}
EmbsOfDoc(id) == {r \in embeddings : r.document_id = id}
EmbedStageError(c) == c.err \in {"empty", "provider"}

(***************************************************************************)
(* C7: an addDocuments call with N inputs that succeeds returns exactly N  *)
(* ids, and the id at index i is the id of the stored document with input  *)
(* i's content, metadata and source, whose one embedding is the vector     *)
(* computed for input i's content, under both providers.                   *)
(***************************************************************************)
C7_BatchIdsInInputOrder ==
    \A k \in CallIds :
        (calls[k].op = "addDocuments" /\ calls[k].ret = "ok") =>
            /\ Len(calls[k].ids) = Len(calls[k].docs)
            /\ \A i \in 1..Len(calls[k].docs) :
                  /\ DocsWithId(calls[k].ids[i])
                        = {DocRow(calls[k].ids[i], calls[k].docs[i], k)}
                  /\ EmbsOfDoc(calls[k].ids[i])
                        = {EmbRow(calls[k].ids[i],
                                  EmbedOf(provider, calls[k].docs[i].content), k)}
            /\ \A i, j \in 1..Len(calls[k].ids) :
                  i # j => calls[k].ids[i] # calls[k].ids[j]

\* a batch of two different documents, embedded in two chunks, stored while
\* the other call stored its document between the two
C7_Witness ==
    /\ calls[1].ret = "ok"
    /\ Len(calls[1].docs) = 2
    /\ calls[1].docs[1].content # calls[1].docs[2].content
    /\ Len(calls[1].sent) = 2
    /\ calls[1].ids = <<1, 3>>
    /\ calls[2].ret = "ok"

(***************************************************************************)
(* C8: when embedding fails for any input of an addDocuments batch, in any *)
(* chunk, the call fails, returns no ids, and no document of the batch is  *)
(* in the store.                                                           *)
(***************************************************************************)
C8_EmbeddingFailureAbortsBatch ==
    \A k \in CallIds :
        (calls[k].op = "addDocuments" /\ EmbedStageError(calls[k])) =>
            /\ calls[k].pc = "failed"
            /\ calls[k].ret = "error"
            /\ calls[k].ids = <<>>
            /\ calls[k].txDocs = {} /\ calls[k].txEmbs = {}
            /\ RowsBy(documents, k) = {} /\ RowsBy(embeddings, k) = {}

\* the provider failed on the second chunk, after the first was embedded
C8_Witness ==
    /\ calls[1].op = "addDocuments"
    /\ calls[1].err = "provider"
    /\ Len(calls[1].embs) = 1
    /\ Len(calls[1].sent) = 2
    /\ calls[1].pc = "failed"

(***************************************************************************)
(* C9: a store failure at any step of insertDocument or                    *)
(* batchInsertDocuments leaves the committed store as it was: no document  *)
(* row and no embedding row of the call is visible; the error reaches the  *)
(* caller; an id is returned only when the document and its embedding are  *)
(* both committed.                                                         *)
(***************************************************************************)
C9_StoreFailureLeavesNoTrace ==
    \A k \in CallIds :
        /\ calls[k].ret # "ok" =>
              RowsBy(documents, k) = {} /\ RowsBy(embeddings, k) = {}
        /\ calls[k].err = "store" =>
              /\ calls[k].pc = "failed"
              /\ calls[k].ret = "error"
              /\ calls[k].txDocs = {} /\ calls[k].txEmbs = {}
        /\ calls[k].ret = "ok" =>
              \A i \in 1..Len(calls[k].ids) :
                  /\ DocsWithId(calls[k].ids[i]) # {}
                  /\ EmbsOfDoc(calls[k].ids[i]) # {}

\* a batch failed in the store after both of its document rows and one
\* embedding row were written
C9_Witness ==
    /\ calls[1].op = "addDocuments"
    /\ calls[1].err = "store"
    /\ Len(calls[1].ids) = 2
    /\ calls[1].at = 2
    /\ calls[2].ret = "ok"

(***************************************************************************)
(* C10: the rag_add_documents tool ingests its documents as one            *)
(* all-or-nothing batch: when the ingestion of one document fails none of  *)
(* the request's documents is left stored; on success the returned         *)
(* documentIds are in input order.                                         *)
(***************************************************************************)
C10_ToolAllOrNothing ==
    /\ tool.pc = "error" => \A k \in ToolChildren : RowsBy(documents, k) = {}
    /\ tool.pc = "ok" =>
          \A k \in ToolChildren : DocRow(tool.ids[k], tool.docs[k], k) \in documents

(***************************************************************************)
(* DatabaseService.searchSimilar: the rows of                              *)
(*   rag.documents d JOIN rag.embeddings e ON d.id = e.document_id         *)
(*   WHERE 1 - (e.embedding <=> $1) >= $2                                  *)
(*   ORDER BY e.embedding <=> $1  LIMIT $3                                 *)
(***************************************************************************)
Joined == {j \in documents \X embeddings : j[2].document_id = j[1].id}

MatchRow(d, e, queryEmbedding) ==
    [id |-> d.id, content |-> d.content, metadata |-> d.metadata,
     source |-> d.source,
     similarity |-> 100 - Distance(e.embedding, queryEmbedding),
     distance |-> Distance(e.embedding, queryEmbedding)]

\* faulty variant: the WHERE clause is missing
SearchRowsUnfiltered(queryEmbedding, threshold) ==
    {MatchRow(j[1], j[2], queryEmbedding) : j \in Joined}

\* the joined rows that pass the WHERE clause
SearchRows(queryEmbedding, threshold) ==
    {r \in {MatchRow(j[1], j[2], queryEmbedding) : j \in Joined} :
        r.similarity >= threshold}

\* ORDER BY the distance, LIMIT: every order of the rows that agrees with
\* the distances, cut after limit rows; rows at one distance come in any order
Ranked(rows, limit) ==
    {r \in SeqsUpTo(rows, Min(limit, Cardinality(rows))) :
        /\ Len(r) = Min(limit, Cardinality(rows))
        /\ \A i, j \in 1..Len(r) : i < j =>
              r[i] # r[j] /\ r[i].distance <= r[j].distance
        /\ \A o \in rows : (\A i \in 1..Len(r) : r[i] # o) =>
              \A i \in 1..Len(r) : r[i].distance <= o.distance}

searchSimilar(queryEmbedding, limit, threshold) ==
    Ranked(SearchRows(queryEmbedding, threshold), limit)

(***************************************************************************)
(* RagAgent.query: the assembly of the result.                             *)
(***************************************************************************)
\* r.source is truthy: neither null nor ''
HasSource(r) == r.source \notin {"none", ""}

\* buildContext: "[i] <content> [Source: <source>]", the suffix only for a source
buildContext(rs) ==
    IF rs = <<>> THEN <<"No relevant context found.">>
    ELSE [i \in 1..Len(rs) |->
            [index |-> i, content |-> rs[i].content,
             suffix |-> IF HasSource(rs[i]) THEN rs[i].source ELSE ""]]

\* self.indexOf(value), counted from 1
indexOf(self, value) ==
    CHOOSE i \in 1..Len(self) :
        self[i] = value /\ \A j \in 1..(i - 1) : self[j] # value

\* faulty variant: every source is kept
UniqueKeepsAll(self) == self

\* .filter((value, index, self) => self.indexOf(value) === index)
Unique(self) ==
    LET RECURSIVE From(_)
        From(i) == IF i > Len(self) THEN <<>>
                   ELSE (IF indexOf(self, self[i]) = i THEN <<self[i]>> ELSE <<>>)
                        \o From(i + 1)
    IN  From(1)

extractCitations(rs) ==
    LET withSource == SelectSeq(rs, HasSource)
    IN  Unique([i \in 1..Len(withSource) |-> withSource[i].source])

\* results.reduce((sum, r) => sum + r.similarity, 0)
RECURSIVE SumSimilarity(_)
SumSimilarity(rs) ==
    IF rs = <<>> THEN 0 ELSE Head(rs).similarity + SumSimilarity(Tail(rs))

\* faulty variant: the division is not guarded, 0 / 0 for no match
averageSimilarityUnguarded(rs) == [num |-> SumSimilarity(rs), den |-> Len(rs)]

\* results.length > 0 ? sum / results.length : 0, as the fraction num / den
averageSimilarity(rs) ==
    IF Len(rs) > 0 THEN [num |-> SumSimilarity(rs), den |-> Len(rs)]
    ELSE [num |-> 0, den |-> 1]

\* includeMetadata ? results : results.map(r => ({...r, metadata: undefined}))
ShownResults(rs, includeMetadata) ==
    IF includeMetadata THEN rs
    ELSE [i \in 1..Len(rs) |-> [rs[i] EXCEPT !.metadata = "undefined"]]

AssembleResult(queryText, rs, includeMetadata, dimensions) ==
    [kind |-> "result",
     query |-> queryText,
     results |-> ShownResults(rs, includeMetadata),
     context |-> buildContext(rs),
     citations |-> extractCitations(rs),
     metadata |-> [totalResults |-> Len(rs),
                   averageSimilarity |-> averageSimilarity(rs),
                   queryEmbeddingDimensions |-> dimensions]]

\* JSON.stringify: a property whose value is undefined is left out
JsonStringify(value) ==
    <<"json",
      [value EXCEPT !.results =
          [i \in 1..Len(value.results) |->
              IF value.results[i].metadata = "undefined"
              THEN [value.results[i] EXCEPT !.metadata = "absent"]
              ELSE value.results[i]]]>>

\* JSON.parse
JsonParse(serialized) == serialized[2]

(***************************************************************************)
(* RagAgent.initialize.                                                    *)
(***************************************************************************)
\* await redisCache.connect(): a failure is caught inside connect
AgentConnect ==
    /\ initPc \in {"start", "failed"}
    /\ ~ isInitialized
    /\ \E ok \in BOOLEAN : isConnected' = (isConnected \/ ok)
    /\ initPc' = "rest"
    /\ UNCHANGED <<isInitialized, cache, queries, dels, env, now, proc,
                   crawlVars, ingestVars>>

\* embeddingService.initialize(); databaseService.initializeSchema();
\* this.isInitialized = true, or the error is thrown
AgentInitRest ==
    /\ initPc = "rest"
    /\ \E ok \in BOOLEAN :
          /\ isInitialized' = ok
          /\ initPc' = IF ok THEN "done" ELSE "failed"
    /\ UNCHANGED <<isConnected, cache, queries, dels, env, now, proc,
                   crawlVars, ingestVars>>

(***************************************************************************)
(* RagAgent.query, call q.  Every await is the end of one action.          *)
(***************************************************************************)
CacheEntries(key) == {e \in cache : e.key = key}

\* faulty variant: the key is derived from the threshold and the metadata
\* flag as well
QueryCallKeyedByOptions(q, text, topK, threshold, includeMetadata) ==
    /\ queries[q].pc = "idle"
    /\ isInitialized
    /\ queries' = [queries EXCEPT ![q] =
          [NoQuery EXCEPT !.pc = "get", !.text = text, !.topK = topK,
                          !.threshold = threshold,
                          !.includeMetadata = includeMetadata,
                          !.key = generateKey(<<"q", "u", "e", "r", "y">>,
                                      <<text, Digits(topK), Digits(threshold),
                                        IF includeMetadata THEN <<"t">> ELSE <<"f">> >>)]]
    /\ UNCHANGED <<isInitialized, initPc, isConnected, cache, dels, env, now, proc,
                   crawlVars, ingestVars>>

\* query(queryText, {topK, similarityThreshold, includeMetadata}) is called
\* on the initialised agent; the options are destructured
QueryCall(q, text, topK, threshold, includeMetadata) ==
    /\ queries[q].pc = "idle"
    /\ isInitialized
    /\ queries' = [queries EXCEPT ![q] =
          [NoQuery EXCEPT !.pc = "get", !.text = text, !.topK = topK,
                          !.threshold = threshold,
                          !.includeMetadata = includeMetadata,
                          !.key = cacheKey(text, topK)]]
    /\ UNCHANGED <<isInitialized, initPc, isConnected, cache, dels, env, now, proc,
                   crawlVars, ingestVars>>

\* any query
QueryStart(q) ==
    \E text \in QueryTexts, topK \in 1..MaxTopK, threshold \in Thresholds,
       includeMetadata \in BOOLEAN :
        QueryCall(q, text, topK, threshold, includeMetadata)

\* the caller has taken the result or the error of call q
QueryConsumed(q) ==
    /\ queries[q].pc \in {"returned", "failed"}
    /\ queries' = [queries EXCEPT ![q] = NoQuery]
    /\ UNCHANGED <<isInitialized, initPc, isConnected, cache, dels, env, now, proc,
                   crawlVars, ingestVars>>

\* faulty variant: a failing GET is thrown to query
GetFailedThrows(c) == [c EXCEPT !.pc = "failed", !.ret = "error", !.err = "cache"]

\* catch in RedisCacheService.get: return null, query goes on as on a miss
GetFailed(c) == [c EXCEPT !.pc = "embed"]

\* faulty variant: the cached matches are filtered by the caller's threshold
HitResultRefiltered(e, c) ==
    LET Keep(r) == r.similarity >= c.threshold
    IN  [JsonParse(e.value) EXCEPT !.results = SelectSeq(@, Keep)]

\* value ? JSON.parse(value) : null, for the value of entry e
HitResult(e, c) == JsonParse(e.value)

\* const cached = await redisCache.get(cacheKey); if (cached) return cached
\* (the log tells how the GET ended: "get:error", "get:miss" or "get:hit")
QueryCacheGet(q) ==
    /\ queries[q].pc = "get"
    /\ IF ~ isConnected
       THEN queries' = [queries EXCEPT ![q] = [@ EXCEPT !.pc = "embed"]]
       ELSE LET c == queries[q]
                e == CHOOSE e \in CacheEntries(c.key) : TRUE
            IN  \E ok \in BOOLEAN :
                  queries' = [queries EXCEPT ![q] =
                      IF ~ ok THEN GetFailed([c EXCEPT !.log = Append(@, "get:error")])
                      ELSE IF CacheEntries(c.key) = {}
                      THEN [c EXCEPT !.pc = "embed", !.log = Append(@, "get:miss")]
                      ELSE [c EXCEPT !.pc = "returned", !.ret = "ok", !.hit = TRUE,
                                     !.from = e.by.q, !.log = Append(@, "get:hit"),
                                     !.result = HitResult(e, c)]]
    /\ UNCHANGED <<isInitialized, initPc, isConnected, cache, dels, env, now, proc,
                   crawlVars, ingestVars>>

\* faulty variant: the failure is swallowed and an empty result goes on to
\* the cache
QueryFailedCachesEmpty(c, why) ==
    [c EXCEPT !.pc = "set", !.err = why,
              !.result = AssembleResult(c.text, <<>>, c.includeMetadata, 0)]

\* catch in query: throw new Error(`RAG query failed: ${error}`)
QueryFailed(c, why) == [c EXCEPT !.pc = "failed", !.ret = "error", !.err = why]

\* await this.embeddingService.generateEmbedding(queryText)
QueryEmbed(q) ==
    /\ queries[q].pc = "embed"
    /\ IF IsBlank(queries[q].text)
       THEN queries' = [queries EXCEPT ![q] = QueryFailed(@, "empty")]
       ELSE LET c == [queries[q] EXCEPT !.log = Append(@, "embed")]
            IN  \E ok \in BOOLEAN :
                  queries' = [queries EXCEPT ![q] =
                      IF ok THEN [c EXCEPT !.pc = "search",
                                           !.vec = EmbedOf(provider, c.text)]
                      ELSE QueryFailed(c, "provider")]
    /\ UNCHANGED <<isInitialized, initPc, isConnected, cache, dels, env, now, proc,
                   crawlVars, ingestVars>>

\* await this.databaseService.searchSimilar(embedding, topK, similarityThreshold)
\* and the assembly of the result
QuerySearch(q) ==
    /\ queries[q].pc = "search"
    /\ LET c == [queries[q] EXCEPT !.log = Append(@, "search")]
       IN  \/ queries' = [queries EXCEPT ![q] = QueryFailed(c, "store")]
           \/ \E rs \in searchSimilar(c.vec, c.topK, c.threshold) :
                 queries' = [queries EXCEPT ![q] =
                     [c EXCEPT !.pc = "set", !.matches = rs,
                               !.result = AssembleResult(c.text, rs, c.includeMetadata,
                                                         Dimensions(provider))]]
    /\ UNCHANGED <<isInitialized, initPc, isConnected, cache, dels, env, now, proc,
                   crawlVars, ingestVars>>

\* setEx(key, cacheTTL, serialized): the entry of the key is replaced
\* (by: the call that wrote the entry, its topK, its threshold and the result
\* it returned)
CacheAfterSet(key, value, q) ==
    (cache \ CacheEntries(key))
        \cup {[key |-> key, value |-> JsonStringify(value), ttl |-> cacheTTL(env), at |-> now,
               by |-> [q |-> q, topK |-> queries[q].topK,
                       threshold |-> queries[q].threshold, result |-> value]]}

\* await redisCache.set(cacheKey, result); return result
\* (the log tells how the SETEX ended: "set:ok" or "set:error")
QueryCacheSet(q) ==
    /\ queries[q].pc = "set"
    /\ IF ~ isConnected
       THEN /\ queries' = [queries EXCEPT ![q] = [@ EXCEPT !.pc = "returned", !.ret = "ok"]]
            /\ UNCHANGED cache
       ELSE \E ok \in BOOLEAN :
               /\ queries' = [queries EXCEPT ![q] =
                     [@ EXCEPT !.pc = "returned", !.ret = "ok",
                               !.log = Append(@, IF ok THEN "set:ok" ELSE "set:error")]]
               /\ cache' = IF ok THEN CacheAfterSet(queries[q].key, queries[q].result, q)
                           ELSE cache
    /\ UNCHANGED <<isInitialized, initPc, isConnected, dels, env, now, proc,
                   crawlVars, ingestVars>>

\* Redis drops an entry whose time to live has passed
Expire ==
    /\ \E e \in cache : cache' = cache \ {e}
    /\ UNCHANGED <<isInitialized, initPc, isConnected, queries, dels, env, now, proc,
                   crawlVars, ingestVars>>

QueryRun(q) ==
    \/ QueryCacheGet(q)
    \/ QueryEmbed(q)
    \/ QuerySearch(q)
    \/ QueryCacheSet(q)

(***************************************************************************)
(* Queries over a corpus stored before them.                               *)
(***************************************************************************)
Corpus(n, p) ==
    [docs |-> {DocRow(i, CorpusDocs[i], 0) : i \in 1..n},
     embs |-> {EmbRow(i, EmbedOf(p, CorpusDocs[i].content), 0) : i \in 1..n}]

InitQuery ==
    /\ InitCrawlIdle
    /\ provider \in {"local", "openai"}
    /\ maxBatchSize = 1
    /\ calls = [k \in CallIds |-> NoCall]
    /\ tool = NoTool
    /\ \E n \in 0..MaxCorpus :
          /\ documents = Corpus(n, provider).docs
          /\ embeddings = Corpus(n, provider).embs
          /\ docSeq = n
    /\ isInitialized = FALSE
    /\ initPc = "start"
    /\ isConnected = FALSE
    /\ cache = {}
    /\ env = NoEnv
    /\ now = 0
    /\ proc = NoShutdown
    /\ queries = [q \in QueryIds |-> NoQuery]
    /\ dels = [d \in DelIds |-> NoDel]

\* one query
NextQuery ==
    \/ AgentConnect
    \/ AgentInitRest
    \/ Expire
    \/ QueryStart(1)
    \/ QueryRun(1)

SpecQuery == InitQuery /\ [][NextQuery]_vars

(***************************************************************************)
(* Queries for one text made one after another by an initialised agent     *)
(* with a connected cache, over the corpus of MaxCorpus documents.         *)
(***************************************************************************)
InitWarm ==
    /\ InitCrawlIdle
    /\ provider = "local"
    /\ maxBatchSize = 1
    /\ calls = [k \in CallIds |-> NoCall]
    /\ tool = NoTool
    /\ documents = Corpus(MaxCorpus, provider).docs
    /\ embeddings = Corpus(MaxCorpus, provider).embs
    /\ docSeq = MaxCorpus
    /\ isInitialized = TRUE
    /\ initPc = "done"
    /\ isConnected = TRUE
    /\ cache = {}
    /\ env = NoEnv
    /\ now = 0
    /\ proc = NoShutdown
    /\ queries = [q \in QueryIds |-> NoQuery]
    /\ dels = [d \in DelIds |-> NoDel]

WarmStart ==
    \E topK \in 1..MaxTopK, threshold \in Thresholds, includeMetadata \in BOOLEAN :
        QueryCall(1, QueryXY, topK, threshold, includeMetadata)

NextWarm ==
    \/ Expire
    \/ WarmStart
    \/ QueryRun(1)
    \/ QueryConsumed(1)

SpecWarm == InitWarm /\ [][NextWarm]_vars

(***************************************************************************)
(* C11: addDocument with empty or whitespace-only content is rejected with *)
(* an error before the embedding provider is invoked and before any store  *)
(* insert, under both providers; the store is unchanged.                   *)
(***************************************************************************)
HasBlank(docs) == \E i \in 1..Len(docs) : IsBlank(docs[i].content)

C11_BlankDocumentRejectedEarly ==
    \A k \in CallIds :
        (calls[k].op = "addDocument" /\ HasBlank(calls[k].docs)) =>
            /\ calls[k].sent = <<>>
            /\ calls[k].pc \in {"embed", "failed"}
            /\ calls[k].pc = "failed" => calls[k].err = "empty"
            /\ calls[k].ids = <<>>
            /\ calls[k].txDocs = {} /\ calls[k].txEmbs = {}
            /\ RowsBy(documents, k) = {} /\ RowsBy(embeddings, k) = {}

\* the empty document was rejected under the OpenAI provider
C11_Witness ==
    /\ provider = "openai"
    /\ calls[2].op = "addDocument"
    /\ calls[2].docs = <<DocEmpty>>
    /\ calls[2].pc = "failed"
    /\ calls[2].err = "empty"

(***************************************************************************)
(* C12: addDocuments rejects a batch that contains a document with empty   *)
(* content before any provider call and before any store insert, under     *)
(* both providers: no stored document ever has empty content.              *)
(***************************************************************************)
C12_BlankBatchRejectedEarly ==
    /\ \A k \in CallIds :
          (calls[k].op = "addDocuments" /\ HasBlank(calls[k].docs)) =>
              /\ calls[k].sent = <<>>
              /\ calls[k].pc \in {"embed", "failed"}
              /\ calls[k].txDocs = {}
    /\ \A r \in documents : ~ IsBlank(r.content)

(***************************************************************************)
(* Deletion: RagAgent.deleteDocument and the rag_delete_document tool,     *)
(* request d.                                                              *)
(***************************************************************************)
\* deleteDocument(id) is called
DeleteCall(id) == [op |-> "deleteDocument", pc |-> "delete", id |-> id, ret |-> "none"]

\* the tool is called with documentId = id
ToolDeleteCall(id) == [op |-> "rag_delete_document", pc |-> "delEmb", id |-> id, ret |-> "none"]

\* faulty variant: deleteDocument drops the cached results as well
DeleteDocumentInvalidates(d) ==
    /\ dels[d].pc = "delete"
    /\ documents' = documents \ DocsWithId(dels[d].id)
    /\ embeddings' = embeddings \ EmbsOfDoc(dels[d].id)
    /\ cache' = {}
    /\ dels' = [dels EXCEPT ![d] = [@ EXCEPT !.pc = "returned", !.ret = "true"]]
    /\ UNCHANGED <<provider, maxBatchSize, calls, docSeq, tool, isInitialized,
                   initPc, isConnected, queries, env, now, proc, crawlVars>>

\* faulty variant: the embedding of the deleted document stays (no cascade)
DeleteDocumentNoCascade(d) ==
    /\ dels[d].pc = "delete"
    /\ documents' = documents \ DocsWithId(dels[d].id)
    /\ dels' = [dels EXCEPT ![d] =
          [@ EXCEPT !.pc = "returned",
                    !.ret = IF DocsWithId(dels[d].id) # {} THEN "true" ELSE "false"]]
    /\ UNCHANGED <<provider, maxBatchSize, calls, embeddings, docSeq, tool,
                   queryVarsButDels, crawlVars>>

\* DELETE FROM rag.documents WHERE id = $1: one statement, the embedding
\* goes with the document (ON DELETE CASCADE); rowCount > 0 is returned
DeleteDocument(d) ==
    /\ dels[d].pc = "delete"
    /\ \/ /\ documents' = documents \ DocsWithId(dels[d].id)
          /\ embeddings' = embeddings \ EmbsOfDoc(dels[d].id)
          /\ dels' = [dels EXCEPT ![d] =
                [@ EXCEPT !.pc = "returned",
                          !.ret = IF DocsWithId(dels[d].id) # {} THEN "true" ELSE "false"]]
       \/ /\ dels' = [dels EXCEPT ![d] = [@ EXCEPT !.pc = "failed", !.ret = "error"]]
          /\ UNCHANGED <<documents, embeddings>>
    /\ UNCHANGED <<provider, maxBatchSize, calls, docSeq, tool, queryVarsButDels, crawlVars>>

\* await dbPool.query('DELETE FROM rag.embeddings WHERE document_id = $1')
ToolDeleteEmbeddings(d) ==
    /\ dels[d].pc = "delEmb"
    /\ \/ /\ embeddings' = embeddings \ EmbsOfDoc(dels[d].id)
          /\ dels' = [dels EXCEPT ![d] = [@ EXCEPT !.pc = "delDoc"]]
       \/ /\ dels' = [dels EXCEPT ![d] = [@ EXCEPT !.pc = "failed", !.ret = "error"]]
          /\ UNCHANGED embeddings
    /\ UNCHANGED <<provider, maxBatchSize, calls, documents, docSeq, tool,
                   queryVarsButDels, crawlVars>>

\* await dbPool.query('DELETE FROM rag.documents WHERE id = $1 RETURNING id');
\* no row returned: throw 'Document with ID ... not found'
ToolDeleteDocument(d) ==
    /\ dels[d].pc = "delDoc"
    /\ \/ /\ documents' = documents \ DocsWithId(dels[d].id)
          /\ embeddings' = embeddings \ EmbsOfDoc(dels[d].id)
          /\ dels' = [dels EXCEPT ![d] =
                IF DocsWithId(dels[d].id) # {}
                THEN [@ EXCEPT !.pc = "returned", !.ret = "ok"]
                ELSE [@ EXCEPT !.pc = "failed", !.ret = "notfound"]]
       \/ /\ dels' = [dels EXCEPT ![d] = [@ EXCEPT !.pc = "failed", !.ret = "error"]]
          /\ UNCHANGED <<documents, embeddings>>
    /\ UNCHANGED <<provider, maxBatchSize, calls, docSeq, tool, queryVarsButDels, crawlVars>>

DeleteStep(d) ==
    \/ DeleteDocument(d)
    \/ ToolDeleteEmbeddings(d)
    \/ ToolDeleteDocument(d)

(***************************************************************************)
(* RagAgent.indexWebsite: crawl 1, then pagesToDocuments, then             *)
(* addDocuments as call 1.                                                 *)
(***************************************************************************)
\* page.url as a string
Href(u) ==
    CASE u = PageA -> "e/a"
      [] u = PageB -> "e/b"
      [] u = PageD -> "e/ab"
      [] u = PageC -> "o/c"
      [] OTHER -> "?"

\* page.title and page.content of the page fetched from u: the title "t"
\* and a text named by the URL, unless the site says otherwise
PageTitle(u) == IF "title" \in DOMAIN site[u] THEN site[u].title ELSE <<"t">>
PageContent(u) == IF "content" \in DOMAIN site[u] THEN site[u].content ELSE u

\* content: `${page.title}\n\n${page.content}`, metadata with the title
\* (an empty title is stored as no title), source: page.url
pagesToDocuments(pages) ==
    [i \in 1..Len(pages) |->
        [content |-> PageTitle(pages[i].url) \o <<"\n", "\n">> \o PageContent(pages[i].url),
         metadata |-> IF PageTitle(pages[i].url) = <<>> THEN "untitled" ELSE "titled",
         source |-> Href(pages[i].url)]]

\* indexWebsite(url, options) is called: it awaits crawlWebsite
IndexCall == [NoCall EXCEPT !.op = "indexWebsite", !.pc = "crawl"]

\* indexWebsite was called and waits for its crawl, crawl 1
Indexing == calls[1].pc = "crawl"

\* crawlWebsite has returned: the pages become documents, addDocuments is called
IndexConvert ==
    /\ calls[1].pc = "crawl"
    /\ cpc[1] = "done"
    /\ calls' = [calls EXCEPT ![1] = NewCall("addDocuments", pagesToDocuments(results[1]))]
    /\ UNCHANGED <<provider, maxBatchSize, documents, embeddings, docSeq, tool,
                   crawlVars, queryVars>>

(***************************************************************************)
(* One change of the corpus (addDocument, addDocuments, indexWebsite,      *)
(* deleteDocument or rag_delete_document) beside two queries for one text, *)
(* on an initialised agent with a connected cache.                         *)
(***************************************************************************)
IndexOptions ==
    [maxDepth |-> 1, maxPages |-> 2, includePaths |-> {}, excludePaths |-> {}]

\* the site indexed: A links to itself and to B, the fetch of B fails
IndexSite ==
    [u \in Urls \cup {BadSeed} |->
        IF u = PageA THEN PageResp(<<PageA, PageB>>) ELSE NullResp]

InitStale ==
    /\ InitCrawlCommon
    /\ site = IndexSite
    /\ seed = [c \in CrawlIds |-> PageA]
    /\ opts = [c \in CrawlIds |-> IndexOptions]
    /\ provider = "local"
    /\ maxBatchSize = 1
    /\ tool = NoTool
    /\ documents = Corpus(2, provider).docs
    /\ embeddings = Corpus(2, provider).embs
    /\ docSeq = 2
    /\ isInitialized = TRUE
    /\ initPc = "done"
    /\ isConnected = TRUE
    /\ cache = {}
    /\ env = NoEnv
    /\ now = 0
    /\ proc = NoShutdown
    /\ queries = [q \in QueryIds |-> NoQuery]
    /\ \/ /\ calls = [k \in CallIds |-> IF k = 2 THEN NewCall("addDocument", <<DocX>>) ELSE NoCall]
          /\ dels = [d \in DelIds |-> NoDel]
       \/ /\ calls = [k \in CallIds |-> IF k = 1 THEN NewCall("addDocuments", <<DocX, DocY>>) ELSE NoCall]
          /\ dels = [d \in DelIds |-> NoDel]
       \/ /\ calls = [k \in CallIds |-> IF k = 1 THEN IndexCall ELSE NoCall]
          /\ dels = [d \in DelIds |-> NoDel]
       \/ /\ calls = [k \in CallIds |-> NoCall]
          /\ \E id \in {2, 3} :
                dels = [d \in DelIds |-> IF d = 1 THEN DeleteCall(id) ELSE NoDel]
       \/ /\ calls = [k \in CallIds |-> NoCall]
          /\ \E id \in {2, 3} :
                dels = [d \in DelIds |-> IF d = 2 THEN ToolDeleteCall(id) ELSE NoDel]

StaleStart(q) ==
    /\ q \in {1, 2}
    /\ QueryCall(q, QueryX, MaxTopK, 0, TRUE)

\* no crawl is between two of its awaits: another operation may take a step
Awaiting == running = 0

NextStale ==
    \/ Indexing /\ CrawlStart(1)
    \/ Indexing /\ LoopExit(1)
    \/ Indexing /\ DequeueSkip(1)
    \/ Indexing /\ DequeueFetch(1)
    \/ Indexing /\ FetchDone(1)
    \/ Indexing /\ DelayDone(1)
    \/ Awaiting /\ IndexConvert
    \/ Awaiting /\ Expire
    \/ \E k \in CallIds : Awaiting /\ EmbedStep(k)
    \/ \E k \in CallIds : Awaiting /\ Connect(k)
    \/ \E k \in CallIds : Awaiting /\ Begin(k)
    \/ \E k \in CallIds : Awaiting /\ InsertDoc(k)
    \/ \E k \in CallIds : Awaiting /\ InsertEmb(k)
    \/ \E k \in CallIds : Awaiting /\ Commit(k)
    \/ \E k \in CallIds : Awaiting /\ Rollback(k)
    \/ \E d \in DelIds : Awaiting /\ DeleteDocument(d)
    \/ \E d \in DelIds : Awaiting /\ ToolDeleteEmbeddings(d)
    \/ \E d \in DelIds : Awaiting /\ ToolDeleteDocument(d)
    \/ \E q \in QueryIds : Awaiting /\ StaleStart(q)
    \/ \E q \in QueryIds : Awaiting /\ QueryCacheGet(q)
    \/ \E q \in QueryIds : Awaiting /\ QueryEmbed(q)
    \/ \E q \in QueryIds : Awaiting /\ QuerySearch(q)
    \/ \E q \in QueryIds : Awaiting /\ QueryCacheSet(q)

SpecStale == InitStale /\ [][NextStale]_vars

(***************************************************************************)
(* Helpers of the query properties.                                        *)
(***************************************************************************)
\* call q went the miss path and has the answer of the store
Answered(q) == queries[q].pc \in {"set", "returned"} /\ ~ queries[q].hit

\* the rows the store holds for the vector of call q
StoredRows(q) == {MatchRow(j[1], j[2], queries[q].vec) : j \in Joined}

Range(f) == {f[i] : i \in 1..Len(f)}

Last(f) == f[Len(f)]

(***************************************************************************)
(* C13: query with empty text is rejected with an InvalidQuery error       *)
(* before any I/O: no cache lookup, no embedding call and no store search  *)
(* happens for it.                                                         *)
(***************************************************************************)
C13_EmptyQueryRejectedBeforeIO ==
    \A q \in QueryIds :
        (queries[q].pc # "idle" /\ queries[q].text = QueryEmpty) =>
            /\ queries[q].log = <<>>
            /\ queries[q].pc \in {"get", "failed"}

(***************************************************************************)
(* C14: when the cache holds an entry for the key of (queryText, topK) and *)
(* the lookup finds it, query returns exactly the stored result, without   *)
(* an embedding call, a store search or a write of the entry; the result   *)
(* is, as JSON, the result the populating miss assembled, whatever the     *)
(* similarityThreshold of the call, so every warm call for the entry       *)
(* returns the same result.                                                *)
(***************************************************************************)
C14_OneEntryPerKey ==
    \A e1, e2 \in cache : e1.key = e2.key => e1 = e2

C14_HitReturnsEntry ==
    \A q \in QueryIds :
        (queries[q].pc = "get" /\ queries'[q].pc # "get" /\ isConnected
            /\ CacheEntries(queries[q].key) # {}) =>
            \/ /\ queries'[q].pc = "embed"
               /\ queries'[q].log = <<"get:error">>
            \/ \E e \in cache :
                  /\ e.key = cacheKey(queries[q].text, queries[q].topK)
                  /\ queries'[q].pc = "returned"
                  /\ queries'[q].ret = "ok"
                  /\ queries'[q].hit
                  /\ queries'[q].result = JsonParse(e.value)
                  /\ JsonStringify(queries'[q].result) = JsonStringify(e.by.result)
                  /\ queries'[q].log = <<"get:hit">>
                  /\ cache' = cache

C15_Sum(m) ==
    LET RECURSIVE Upto(_)
        Upto(i) == IF i = 0 THEN 0 ELSE m[i].similarity + Upto(i - 1)
    IN  Upto(Len(m))

C15_AverageSimilarity ==
    \A q \in QueryIds :
        Answered(q) =>
            LET m == queries[q].matches
                avg == queries[q].result.metadata.averageSimilarity
            IN  /\ queries[q].result.metadata.totalResults = Len(m)
                /\ avg.den > 0
                /\ Len(m) = 0 => avg.num = 0
                /\ Len(m) > 0 => avg.num * Len(m) = C15_Sum(m) * avg.den

\* two matches of different similarity were averaged
C15_Witness ==
    /\ Answered(1)
    /\ queries[1].pc = "returned"
    /\ Len(queries[1].matches) = 2
    /\ queries[1].matches[1].similarity # queries[1].matches[2].similarity

(***************************************************************************)
(* C16: for every query answered on a cache miss, citations holds each     *)
(* source URL of the matches exactly once, in the order of the first match *)
(* carrying it, holds nothing else, and leaves out the matches without a   *)
(* source.                                                                 *)
(***************************************************************************)
C16_FirstMatch(m, url) ==
    CHOOSE i \in 1..Len(m) : m[i].source = url /\ \A j \in 1..(i - 1) : m[j].source # url

C16_Citations ==
    \A q \in QueryIds :
        Answered(q) =>
            LET m == queries[q].matches
                cs == queries[q].result.citations
            IN  /\ \A i, j \in 1..Len(cs) : i # j => cs[i] # cs[j]
                /\ Range(cs) = {m[i].source : i \in 1..Len(m)} \ {"none"}
                /\ \A i, j \in 1..Len(cs) :
                      i < j => C16_FirstMatch(m, cs[i]) < C16_FirstMatch(m, cs[j])

\* two matches share their source
C16_Witness ==
    /\ Answered(1)
    /\ Len(queries[1].matches) = 2
    /\ queries[1].matches[1].source = queries[1].matches[2].source
    /\ queries[1].result.citations = <<"s1">>

(***************************************************************************)
(* C17: searchSimilar(vector, k, minSimilarity) returns at most k matches, *)
(* each a stored document with similarity = 1 - distance and similarity    *)
(* >= minSimilarity, in non-increasing order of similarity, and they are   *)
(* the k most similar stored documents among those that meet the           *)
(* threshold.  With the first three documents of the corpus, a query       *)
(* vector nearest to document 2, topK = 2 and threshold 0, document 2 is   *)
(* first.                                                                  *)
(***************************************************************************)
C17_ScenarioB(q) ==
    /\ documents = Corpus(3, provider).docs
    /\ queries[q].text = QueryX
    /\ queries[q].topK = 2
    /\ queries[q].threshold = 0

C18_QueryIgnoresCacheFaults ==
    \A q \in QueryIds :
        /\ queries[q].err \in {"none", "empty", "provider", "store"}
        /\ queries[q].pc = "failed" => queries[q].err # "none"
        /\ (queries[q].pc = "returned" /\ ~ queries[q].hit) =>
              /\ queries[q].ret = "ok"
              /\ queries[q].matches
                    \in searchSimilar(queries[q].vec, queries[q].topK, queries[q].threshold)
              /\ queries[q].result
                    = AssembleResult(queries[q].text, queries[q].matches,
                                     queries[q].includeMetadata, Dimensions(provider))
        /\ (~ isConnected /\ queries[q].pc = "returned") =>
              queries[q].log = <<"embed", "search">>

C18_ConnectNeverFailsInitialize ==
    (initPc \in {"start", "failed"} /\ initPc' # initPc) => initPc' = "rest"

C18_CacheFaultsTolerated ==
    [](C18_QueryIgnoresCacheFaults) /\ [][C18_ConnectNeverFailsInitialize]_vars

\* a query was answered although its GET and its SETEX both failed
C18_Witness ==
    /\ isConnected
    /\ queries[1].pc = "returned"
    /\ queries[1].ret = "ok"
    /\ queries[1].log = <<"get:error", "embed", "search", "set:error">>
    /\ Len(queries[1].matches) > 0

(***************************************************************************)
(* C19: no operation other than query's miss path writes the result cache  *)
(* and no operation deletes or rewrites a cache entry: addDocument,        *)
(* addDocuments, indexWebsite, deleteDocument and the rag_delete_document  *)
(* tool leave every cached entry unchanged, so a warm query may return a   *)
(* deleted document or miss a new one until the entry expires.             *)
(***************************************************************************)
\* a step of an ingest, index, crawl or delete operation
C19_CorpusOperationStep ==
    \/ calls' # calls
    \/ dels' # dels
    \/ documents' # documents
    \/ embeddings' # embeddings
    \/ crawlVars' # crawlVars

\* the cache changes only by the SETEX of a query on its miss path or by the
\* expiry of an entry, and never in a step of another operation
C19_Frame ==
    /\ cache' # cache =>
          \/ \E q \in QueryIds :
                /\ queries[q].pc = "set"
                /\ queries'[q].pc = "returned"
                /\ cache' = CacheAfterSet(queries[q].key, queries[q].result, q)
          \/ \E e \in cache : cache' = cache \ {e}
    /\ C19_CorpusOperationStep => cache' = cache

\* an entry keeps its value until it expires
C19_NoRewrite ==
    \A e \in cache :
        \/ \E e2 \in cache' : e2.key = e.key /\ e2.value = e.value
        \/ cache' = cache \ {e}

\* the statement as it stands: the frame, and no entry is ever rewritten
C19_CacheNeverRewritten == [][C19_Frame /\ C19_NoRewrite]_vars

\* the statement that holds: the frame alone; a query on its miss path may
\* replace the entry of its key
C19_OnlyQueryMissWritesCache == [][C19_Frame]_vars

\* a warm query returned document 2 after deleteDocument had removed it
C19_Witness ==
    /\ dels[1].op = "deleteDocument"
    /\ dels[1].ret = "true"
    /\ DocsWithId(2) = {}
    /\ queries[2].hit
    /\ queries[2].pc = "returned"
    /\ \E i \in 1..Len(queries[2].result.results) : queries[2].result.results[i].id = 2

(***************************************************************************)
(* C20: in every state visible to other operations, after any interleaving *)
(* of addDocument, addDocuments, deleteDocument and the                    *)
(* rag_delete_document tool, a failure between the tool's two statements   *)
(* included, every stored document has exactly one embedding and every     *)
(* embedding belongs to a stored document.                                 *)
(***************************************************************************)
C20_OneEmbeddingPerDocument ==
    /\ \A d \in documents : Cardinality(EmbsOfDoc(d.id)) = 1
    /\ \A e \in embeddings : DocsWithId(e.document_id) # {}

(***************************************************************************)
(* C21: deleteDocument(id) returns true exactly when a document with that  *)
(* id existed, removes that document together with its embedding and       *)
(* leaves every other document and embedding unchanged; deleting an absent *)
(* id returns false and changes nothing.  No ingest or query operation     *)
(* changes or removes an already stored document.                          *)
(***************************************************************************)
\* deleteDocument call d returns in this step
C21_DeleteReturns(d) ==
    /\ dels[d].op = "deleteDocument"
    /\ dels[d].pc = "delete"
    /\ dels'[d].pc = "returned"

C21_DeleteEffect ==
    \A d \in DelIds :
        C21_DeleteReturns(d) =>
            /\ dels'[d].ret = "true" <=> DocsWithId(dels[d].id) # {}
            /\ dels'[d].ret = "false" <=> DocsWithId(dels[d].id) = {}
            /\ documents' = {r \in documents : r.id # dels[d].id}
            /\ embeddings' = {e \in embeddings : e.document_id # dels[d].id}
            /\ DocsWithId(dels[d].id) = {} => UNCHANGED <<documents, embeddings>>

\* a step of addDocument, addDocuments, indexWebsite or query keeps every
\* stored row as it is
C21_OthersKeepRows ==
    (calls' # calls \/ queries' # queries \/ crawlVars' # crawlVars) =>
        /\ documents \subseteq documents'
        /\ embeddings \subseteq embeddings'

C21_DeleteRemovesOneDocument == [][C21_DeleteEffect /\ C21_OthersKeepRows]_vars

\* deleteDocument(2) returned true: document 2 and its embedding are gone,
\* document 1 and its embedding are still stored
C21_Witness ==
    /\ dels[1].op = "deleteDocument"
    /\ dels[1].id = 2
    /\ dels[1].ret = "true"
    /\ DocsWithId(2) = {} /\ EmbsOfDoc(2) = {}
    /\ DocsWithId(1) # {} /\ EmbsOfDoc(1) # {}

(***************************************************************************)
(* RagAgent.indexWebsite run alone: crawl 1, pagesToDocuments, addDocuments *)
(* as call 1, and the value returned.                                      *)
(***************************************************************************)
IndexOptionChoices ==
    [maxDepth : {0, 1}, maxPages : {1, 2},
     includePaths : {{}}, excludePaths : {{}, {<<"a">>}}]

InitIndex ==
    /\ InitCrawlCommon
    /\ InitQueryIdle
    /\ InitStore
    /\ site = [u \in Urls \cup {BadSeed} |-> UnknownResp]
    /\ seed = [c \in CrawlIds |-> PageA]
    /\ \E o \in IndexOptionChoices : opts = [c \in CrawlIds |-> o]
    /\ provider \in {"local", "openai"}
    /\ maxBatchSize = 1
    /\ tool = NoTool
    /\ calls = [k \in CallIds |-> IF k = 1 THEN IndexCall ELSE NoCall]

NextIndex ==
    \/ Indexing /\ CrawlStart(1)
    \/ Indexing /\ LoopExit(1)
    \/ Indexing /\ DequeueSkip(1)
    \/ Indexing /\ DequeueFetch(1)
    \/ Indexing /\ FetchDone(1)
    \/ Indexing /\ DelayDone(1)
    \/ IndexConvert
    \/ EmbedStep(1)
    \/ Connect(1)
    \/ Begin(1)
    \/ InsertDoc(1)
    \/ InsertEmb(1)
    \/ Commit(1)
    \/ Rollback(1)

SpecIndex == InitIndex /\ [][NextIndex]_vars

\* indexWebsite has settled: addDocuments returned or threw
IndexSettled ==
    /\ calls[1].op = "addDocuments"
    /\ calls[1].pc \in {"returned", "failed"}

\* return { documentIds, pageCount: pages.length }; an error of addDocuments
\* is not caught
IndexOutcome ==
    IF calls[1].pc = "returned"
    THEN [status |-> "ok", documentIds |-> calls[1].ids, pageCount |-> Len(results[1])]
    ELSE [status |-> "error", documentIds |-> <<>>, pageCount |-> 0]

(***************************************************************************)
(* C22: indexWebsite never fails because of per-page fetch failures: when  *)
(* the crawl returns zero pages (the seed fetch fails, or the seed is      *)
(* filtered out) it returns {documentIds: [], pageCount: 0}; in every      *)
(* successful return documentIds has exactly pageCount entries and         *)
(* documentIds[i] is the document built from the i-th crawled page.        *)
(* A failure of the embedding provider or of the store is not counted.     *)
(***************************************************************************)
C22_IndexWebsiteSurvivesFetchFailures ==
    /\ (IndexSettled /\ calls[1].err \notin {"provider", "store"}) =>
          IndexOutcome.status = "ok"
    /\ (IndexSettled /\ results[1] = <<>> /\ calls[1].err \notin {"provider", "store"}) =>
          IndexOutcome = [status |-> "ok", documentIds |-> <<>>, pageCount |-> 0]
    /\ (IndexSettled /\ IndexOutcome.status = "ok") =>
          /\ Len(IndexOutcome.documentIds) = IndexOutcome.pageCount
          /\ \A i \in 1..Len(results[1]) :
                DocRow(IndexOutcome.documentIds[i],
                       pagesToDocuments(results[1])[i], 1) \in documents

(***************************************************************************)
(* C23: the cache key used by query is a function of (queryText, topK)     *)
(* only: two calls with the same text and topK use the same key whatever   *)
(* their similarityThreshold and includeMetadata, so a cache hit may       *)
(* return results filtered by another threshold or carrying metadata       *)
(* although includeMetadata = false was asked for.                         *)
(***************************************************************************)
\* what a call with the options threshold and includeMetadata computes for
\* the text and topK of call c, after the round trip through the cache
C23_StoredFor(c, threshold, includeMetadata) ==
    {JsonParse(JsonStringify(
        AssembleResult(c.text, rs, includeMetadata, Dimensions(provider)))) :
            rs \in searchSimilar(EmbedOf(provider, c.text), c.topK, threshold)}

C23_KeyIgnoresThresholdAndMetadata ==
    \A q \in QueryIds :
        /\ queries[q].pc # "idle" =>
              queries[q].key = cacheKey(queries[q].text, queries[q].topK)
        /\ queries[q].hit =>
              \E threshold \in Thresholds, includeMetadata \in BOOLEAN :
                  queries[q].result \in C23_StoredFor(queries[q], threshold, includeMetadata)

\* a call with the threshold 0.7 and includeMetadata = false hit the entry
\* of a call with other options: it returned a match below 0.7, with metadata
C23_Witness ==
    /\ queries[1].hit
    /\ queries[1].pc = "returned"
    /\ queries[1].threshold = DefaultThreshold
    /\ ~ queries[1].includeMetadata
    /\ \E i \in 1..Len(queries[1].result.results) :
          /\ queries[1].result.results[i].similarity < DefaultThreshold
          /\ queries[1].result.results[i].metadata \notin {"undefined", "absent"}

(***************************************************************************)
(* The life of a cache entry: queries for one text by an initialised agent *)
(* with a connected cache, under the settings of the deployment, while the *)
(* clock of the Redis server advances.                                     *)
(***************************************************************************)
\* the clock stops here
MaxNow == 7200
\* the clock advances in steps of half an hour
TickSeconds == 1800

\* the deployments tried: CACHE_TTL and REDIS_CACHE_TTL set or not
EnvChoices ==
    {[CACHE_TTL |-> c, REDIS_CACHE_TTL |-> r] :
        c \in {Unset, <<7200>>}, r \in {Unset, <<1800>>}}

\* EnvironmentSchema.CACHE_TTL: the validated setting, '3600' when not given
ConfiguredTTL(environment) == ValueOr(environment.CACHE_TTL, 3600)

InitTTL ==
    /\ InitCrawlIdle
    /\ provider = "local"
    /\ maxBatchSize = 1
    /\ calls = [k \in CallIds |-> NoCall]
    /\ tool = NoTool
    /\ documents = Corpus(2, provider).docs
    /\ embeddings = Corpus(2, provider).embs
    /\ docSeq = 2
    /\ isInitialized = TRUE
    /\ initPc = "done"
    /\ isConnected = TRUE
    /\ cache = {}
    /\ queries = [q \in QueryIds |-> NoQuery]
    /\ dels = [d \in DelIds |-> NoDel]
    /\ env \in EnvChoices
    /\ now = 0
    /\ proc = NoShutdown

\* SETEX key seconds value: the key is gone once its seconds have passed
Tick ==
    /\ now + TickSeconds <= MaxNow
    /\ now' = now + TickSeconds
    /\ cache' = {e \in cache : e.at + e.ttl > now + TickSeconds}
    /\ UNCHANGED <<isInitialized, initPc, isConnected, queries, dels, env, proc,
                   crawlVars, ingestVars>>

TTLStart == QueryCall(1, QueryX, 1, 0, TRUE)

NextTTL ==
    \/ Tick
    \/ TTLStart
    \/ QueryRun(1)
    \/ QueryConsumed(1)

SpecTTL == InitTTL /\ [][NextTTL]_vars

(***************************************************************************)
(* C24: every cache entry written by query expires after the TTL           *)
(* configured for the deployment (the documented CACHE_TTL setting,        *)
(* default 3600 seconds): the entry is written with that time to live, and *)
(* it is there for a query exactly as long as that time has not passed.    *)
(***************************************************************************)
C24_EntryLivesForConfiguredTTL ==
    \A e \in cache :
        /\ e.ttl = ConfiguredTTL(env)
        /\ now < e.at + ConfiguredTTL(env)

(***************************************************************************)
(* One crawl run alone, with progress: the JS thread runs the synchronous  *)
(* part of the loop, the GET of scrapePage settles (timeout: 10000) and    *)
(* the 1000 ms timer fires.                                                *)
(***************************************************************************)
SpecCrawlFair == SpecCrawl /\ WF_vars(NextCrawl)

\* crawlWebsite has returned or thrown
CrawlEnded(c) == cpc[c] \in {"done", "thrown"}

(***************************************************************************)
(* C25: every crawlWebsite run over a finite link graph terminates, on     *)
(* graphs with cycles and self-links and when every fetch fails as well;   *)
(* on return either the queue is empty or the number of returned pages     *)
(* equals maxPages, and no fetch is started once maxPages pages have been  *)
(* collected.                                                              *)
(***************************************************************************)
C25_StopCondition ==
    /\ cpc[1] = "done" =>
          (queue[1] = <<>> \/ Len(results[1]) = opts[1].maxPages)
    /\ cpc[1] = "fetching" => Len(results[1]) < opts[1].maxPages

C25_CrawlTerminates ==
    /\ (cpc[1] = "loop") ~> CrawlEnded(1)
    /\ [](C25_StopCondition)

\* a crawl over a graph with a link back to the seed has returned with the
\* page budget used up and tasks left in the queue
C25_Witness ==
    /\ cpc[1] = "done"
    /\ Len(results[1]) = opts[1].maxPages
    /\ queue[1] # <<>>
    /\ \E i \in 1..Len(results[1]) :
          \E n \in 1..Len(results[1][i].links) : results[1][i].links[n] = seed[1]

(***************************************************************************)
(* C26: in the page list returned by one crawl the depths at which the     *)
(* pages were dequeued are non-decreasing in list order: every page of     *)
(* depth d comes before any page dequeued at depth d + 1.                  *)
(***************************************************************************)
C26_PagesInLevelOrder ==
    \A c \in CrawlIds :
        /\ \A i, j \in 1..Len(results[c]) :
              i < j => results[c][i].depth <= results[c][j].depth
        /\ \A i, j \in 1..Len(queue[c]) :
              i < j => queue[c][i].depth <= queue[c][j].depth
        /\ \A i \in 1..Len(results[c]) : \A j \in 1..Len(queue[c]) :
              results[c][i].depth <= queue[c][j].depth

\* a crawl returned pages of the depths 0, 1 and 2
C26_Witness ==
    /\ cpc[1] = "done"
    /\ Len(results[1]) = 3
    /\ results[1][1].depth = 0
    /\ results[1][2].depth = 1
    /\ results[1][3].depth = 2

(***************************************************************************)
(* C27: the depth at which a URL is fetched equals the length of the       *)
(* shortest link path from the seed to it through pages that were fetched  *)
(* successfully, pass the scope filters and share the seed's hostname: a   *)
(* URL may sit in the queue several times with different depths, and the   *)
(* first dequeue of a URL is the one with its minimal depth.               *)
(***************************************************************************)
\* the URLs one same-hostname link away from a URL of S, through the pages
\* crawl c has fetched (a fetched page has passed the filters)
C27_OneHop(c, S) ==
    {v \in Urls : \E i \in 1..Len(results[c]) :
        /\ results[c][i].url \in S
        /\ \E n \in 1..Len(results[c][i].links) : results[c][i].links[n] = v
        /\ Hostname(v) = Hostname(results[c][i].url)}

\* the URLs at most n hops from the seed
RECURSIVE C27_Within(_, _)
C27_Within(c, n) ==
    IF n = 0 THEN {seed[c]}
    ELSE C27_Within(c, n - 1) \cup C27_OneHop(c, C27_Within(c, n - 1))

\* the length of the shortest link path from the seed to u
C27_LinkDistance(c, u) ==
    CHOOSE n \in 0..Cardinality(Urls) :
        /\ u \in C27_Within(c, n)
        /\ n > 0 => u \notin C27_Within(c, n - 1)

C27_FetchDepthIsLinkDistance ==
    \A i \in FetchIdx(clog[1]) :
        /\ clog[1][i].url \in C27_Within(1, Cardinality(Urls))
        /\ clog[1][i].depth = C27_LinkDistance(1, clog[1][i].url)
        /\ \A j \in 1..Len(queue[1]) :
              queue[1][j].url = clog[1][i].url => queue[1][j].depth >= clog[1][i].depth

\* a URL fetched at depth 1 sits in the queue once more, at depth 2
C27_Witness ==
    \E i \in FetchIdx(clog[1]) : \E j \in 1..Len(queue[1]) :
        /\ clog[1][i].depth = 1
        /\ queue[1][j].url = clog[1][i].url
        /\ queue[1][j].depth = 2

(***************************************************************************)
(* C28: a URL, the seed included, is fetched only if it contains no        *)
(* excludePaths entry as a substring and, when includePaths is not empty,  *)
(* contains at least one includePaths entry; an exclude match wins over an *)
(* include match; an empty includePaths allows every URL; a task discarded *)
(* by a filter is not added to the visited set and causes no fetch and no  *)
(* delay, so a seed rejected by the filters gives an empty result without  *)
(* any fetch.                                                              *)
(***************************************************************************)
C28_Excluded(u, o) == \E p \in o.excludePaths : Includes(u, p)
C28_Included(u, o) ==
    o.includePaths = {} \/ \E p \in o.includePaths : Includes(u, p)
C28_InScope(u, o) == ~ C28_Excluded(u, o) /\ C28_Included(u, o)

C28_OnlyInScopeFetched ==
    /\ \A u \in FetchedUrls(clog[1]) \cup visitedUrls : C28_InScope(u, opts[1])
    /\ (cpc[1] = "done" /\ ~ C28_InScope(seed[1], opts[1])) =>
          results[1] = <<>> /\ clog[1] = <<>> /\ visitedUrls = {}

\* the task at the head of the queue is dequeued in this step
C28_Dequeues ==
    /\ cpc[1] = "loop"
    /\ LoopCond(queue[1], results[1], opts[1])
    /\ queue'[1] = Tail(queue[1])

C28_FilterStep ==
    /\ (C28_Dequeues /\ ~ C28_InScope(Head(queue[1]).url, opts[1])) =>
          UNCHANGED <<visitedUrls, site, cpc, results, cur, clog>>
    /\ ( /\ C28_Dequeues
         /\ C28_InScope(Head(queue[1]).url, opts[1])
         /\ Head(queue[1]).url \notin visitedUrls
         /\ Head(queue[1]).depth <= opts[1].maxDepth )
       => /\ cpc'[1] = "fetching"
          /\ cur'[1] = Head(queue[1])

C28_ScopeFilters == [](C28_OnlyInScopeFetched) /\ [][C28_FilterStep]_vars

\* a crawl with both filters set has returned; a page it fetched below the
\* depth limit links to a URL that matches both the include and the exclude
\* entry, and that URL was neither fetched nor marked visited
C28_Witness ==
    /\ cpc[1] = "done"
    /\ opts[1].includePaths # {} /\ opts[1].excludePaths # {}
    /\ \E u \in Urls :
          /\ C28_Excluded(u, opts[1])
          /\ \E p \in opts[1].includePaths : Includes(u, p)
          /\ u \notin visitedUrls
          /\ u \notin FetchedUrls(clog[1])
          /\ \E i \in 1..Len(results[1]) :
                /\ results[1][i].depth < opts[1].maxDepth
                /\ \E n \in 1..Len(results[1][i].links) : results[1][i].links[n] = u

(***************************************************************************)
(* C29: within one crawl invocation at most one fetch is in progress at    *)
(* any time, and every fetch attempt, successful or failed, is followed by *)
(* the fixed delay before the next task is dequeued: no two fetch attempts *)
(* of one crawl occur without a completed delay between them.              *)
(***************************************************************************)
\* the fetches of crawl c that have started and not settled
C29_InProgress(c) ==
    {i \in FetchIdx(clog[c]) : i = Len(clog[c]) /\ cpc[c] = "fetching"}

C29_OneFetchThenDelay ==
    \A c \in CrawlIds :
        /\ Cardinality(C29_InProgress(c)) <= 1
        /\ \A i \in 1..Len(clog[c]) :
              clog[c][i].ev = (IF i % 2 = 1 THEN "fetch" ELSE "delay")
        /\ cpc[c] \in {"loop", "done"} =>
              (clog[c] = <<>> \/ clog[c][Len(clog[c])].ev = "delay")
        /\ cpc[c] \in {"fetching", "delaying"} =>
              (clog[c] # <<>> /\ clog[c][Len(clog[c])].ev = "fetch")

\* a fetch failed, the delay was completed and another fetch was started
C29_Witness ==
    /\ Len(clog[1]) >= 5
    /\ site[clog[1][3].url] = NullResp
    /\ clog[1][4].ev = "delay"
    /\ clog[1][5].ev = "fetch"

(***************************************************************************)
(* EmbeddingService.generateEmbeddings alone: the embedding stage of one   *)
(* addDocuments call (call 1) over up to MaxTexts texts.                   *)
(***************************************************************************)
\* the largest number of texts given to generateEmbeddings
MaxTexts == 3

InitEmbed ==
    /\ InitCrawlIdle
    /\ InitQueryIdle
    /\ InitStore
    /\ tool = NoTool
    /\ provider \in {"local", "openai"}
    /\ maxBatchSize \in 1..MaxBatchBound
    /\ \E batch \in SeqsUpTo({DocX, DocY, DocBlank}, MaxTexts) :
          calls = [k \in CallIds |->
                     IF k = 1 THEN NewCall("addDocuments", batch) ELSE NoCall]

NextEmbed == EmbedStep(1)

SpecEmbed == InitEmbed /\ [][NextEmbed]_vars

\* results.push(...batchResults) over all chunks: the texts sent, in order
RECURSIVE Flatten(_)
Flatten(chunks) ==
    IF chunks = <<>> THEN <<>> ELSE Head(chunks) \o Flatten(Tail(chunks))

\* Math.ceil(n / size)
CeilDiv(n, size) == (n + size - 1) \div size

(***************************************************************************)
(* C30: for every number of texts N >= 1 and every per-call ceiling        *)
(* c >= 1, generateEmbeddings issues provider calls of at most c texts     *)
(* each, processes the chunks one after another in input order, and        *)
(* returns exactly N results, result i being the embedding of text i.      *)
(***************************************************************************)
C30_ChunkedInInputOrder ==
    \A k \in CallIds :
        (calls[k].op = "addDocuments" /\ calls[k].docs # <<>>) =>
            /\ \A i \in 1..Len(calls[k].sent) :
                  Len(calls[k].sent[i]) \in 1..maxBatchSize
            /\ ~ HasBlank(calls[k].docs) =>
                  IsPrefix(Flatten(calls[k].sent), Texts(calls[k].docs))
            /\ calls[k].pc = "connect" =>
                  /\ Flatten(calls[k].sent) = Texts(calls[k].docs)
                  /\ Len(calls[k].sent) = CeilDiv(Len(calls[k].docs), maxBatchSize)
                  /\ Len(calls[k].embs) = Len(calls[k].docs)
                  /\ \A i \in 1..Len(calls[k].docs) :
                        calls[k].embs[i] = EmbedOf(provider, calls[k].docs[i].content)

\* three texts under a ceiling of two: a chunk of two, then a chunk of one,
\* and three results
C30_Witness ==
    /\ calls[1].pc = "connect"
    /\ maxBatchSize = 2
    /\ Len(calls[1].docs) = 3
    /\ calls[1].docs[1] # calls[1].docs[2]
    /\ Len(calls[1].sent) = 2
    /\ Len(calls[1].sent[1]) = 2
    /\ Len(calls[1].sent[2]) = 1
    /\ Len(calls[1].embs) = 3

(***************************************************************************)
(* C31: when several stored documents are at the same distance from the    *)
(* query vector, searchSimilar returns them in insertion order (lower      *)
(* document id first), so the ranked result and the set cut off by topK    *)
(* are a function of the stored documents and the query.                   *)
(***************************************************************************)
C31_TiesInInsertionOrder ==
    \A q \in QueryIds :
        Answered(q) =>
            /\ \A i, j \in 1..Len(queries[q].matches) :
                  (i < j /\ queries[q].matches[i].distance = queries[q].matches[j].distance)
                     => queries[q].matches[i].id < queries[q].matches[j].id
            /\ \A o \in StoredRows(q) \ Range(queries[q].matches) :
                  \A i \in 1..Len(queries[q].matches) :
                      queries[q].matches[i].distance = o.distance
                         => queries[q].matches[i].id < o.id

(***************************************************************************)
(* C32: on a cache miss, query fails exactly when the embedding call or    *)
(* the store search fails, the failure reaches the caller, and a failed    *)
(* query writes nothing to the cache; a successful miss performs, in this  *)
(* order, one embed call, one searchSimilar call and one cache set under   *)
(* the key that was looked up.                                             *)
(***************************************************************************)
\* the log of call q without the outcomes of GET and SETEX
C32_Work(q) ==
    LET IsWork(x) == x \in {"embed", "search"} IN SelectSeq(queries[q].log, IsWork)

C32_MissPath ==
    \A q \in QueryIds :
        /\ queries[q].pc = "failed" <=> queries[q].err # "none"
        /\ queries[q].err \in {"none", "empty", "provider", "store"}
        /\ queries[q].pc = "failed" =>
              /\ queries[q].ret = "error"
              /\ \A e \in cache : e.by.q # q
              /\ (queries[q].err = "empty" => C32_Work(q) = <<>>)
              /\ (queries[q].err = "provider" => C32_Work(q) = <<"embed">>)
              /\ (queries[q].err = "store" => C32_Work(q) = <<"embed", "search">>)
        /\ Answered(q) => C32_Work(q) = <<"embed", "search">>
        /\ (Answered(q) /\ queries[q].pc = "returned" /\ isConnected) =>
              /\ Len(queries[q].log) = 4
              /\ queries[q].log[1] \in {"get:miss", "get:error"}
              /\ queries[q].log[4] \in {"set:ok", "set:error"}
        /\ \A e \in cache :
              e.by.q = q =>
                 /\ e.key = queries[q].key
                 /\ e.key = cacheKey(queries[q].text, queries[q].topK)
                 /\ e.by.result = queries[q].result
                 /\ queries[q].pc = "returned"
                 /\ Last(queries[q].log) = "set:ok"

\* a miss that found matches went through GET, embed, search and SETEX, and
\* its result is in the cache under its key
C32_Witness ==
    /\ queries[1].pc = "returned"
    /\ queries[1].log = <<"get:miss", "embed", "search", "set:ok">>
    /\ Len(queries[1].matches) > 0
    /\ \E e \in cache : e.key = queries[1].key /\ e.by.result = queries[1].result

(***************************************************************************)
(* The shutdown handler of the server process, run for SIGINT (1) and      *)
(* SIGTERM (2).  dbPool of the handler and databaseService.pool are the    *)
(* one exported Pool.  Awaits that settle without I/O are part of the step *)
(* before them.                                                            *)
(***************************************************************************)
\* how pool.end() settles: on a pool that end() was already called on, pg
\* rejects ('Called end on pool more than once') or, in a build whose pool
\* allows it, ends again
EndOutcomes(ending) == IF ending THEN {"rejected", "endingPool"} ELSE {"endingPool"}

\* shutdown(signal) up to its first await: httpServer.close(); dbPool.end()
Signal(s) ==
    /\ proc.exit = "running"
    /\ proc.pc[s] = "idle"
    /\ \E outcome \in EndOutcomes(proc.ending) :
          proc' = [proc EXCEPT !.pc[s] = outcome, !.ending = TRUE, !.poolEnds = @ + 1]
    /\ UNCHANGED <<isInitialized, initPc, isConnected, cache, queries, dels, env, now,
                   crawlVars, ingestVars>>

\* dbPool.end() has settled; ragAgent.cleanup(): embeddingService.cleanup(),
\* then databaseService.close() calls this.pool.end()
PoolEnded(s) ==
    /\ proc.exit = "running"
    /\ proc.pc[s] = "endingPool"
    /\ \/ \E outcome \in EndOutcomes(proc.ending) :
             proc' = [proc EXCEPT
                        !.pc[s] = IF outcome = "rejected" THEN outcome ELSE "closingDb",
                        !.ending = TRUE, !.poolEnds = @ + 1]
       \/ proc' = [proc EXCEPT !.pc[s] = "rejected", !.broken = TRUE]
    /\ UNCHANGED <<isInitialized, initPc, isConnected, cache, queries, dels, env, now,
                   crawlVars, ingestVars>>

\* this.pool.end() has settled; redisCache.disconnect(): quit() when
\* connected; else this.isInitialized = false and process.exit(0)
DbClosed(s) ==
    /\ proc.exit = "running"
    /\ proc.pc[s] = "closingDb"
    /\ \/ /\ isConnected
          /\ proc' = [proc EXCEPT !.pc[s] = "quitting", !.quits = @ + 1]
          /\ UNCHANGED isInitialized
       \/ /\ ~ isConnected
          /\ proc' = [proc EXCEPT !.pc[s] = "done", !.exit = "exit0"]
          /\ isInitialized' = FALSE
       \/ /\ proc' = [proc EXCEPT !.pc[s] = "rejected", !.broken = TRUE]
          /\ UNCHANGED isInitialized
    /\ UNCHANGED <<initPc, isConnected, cache, queries, dels, env, now,
                   crawlVars, ingestVars>>

\* client.quit() has settled: this.isConnected = false;
\* this.isInitialized = false; process.exit(0)
RedisQuit(s) ==
    /\ proc.exit = "running"
    /\ proc.pc[s] = "quitting"
    /\ \/ /\ proc' = [proc EXCEPT !.pc[s] = "done", !.exit = "exit0"]
          /\ isConnected' = FALSE
          /\ isInitialized' = FALSE
       \/ /\ proc' = [proc EXCEPT !.pc[s] = "rejected", !.broken = TRUE]
          /\ UNCHANGED <<isConnected, isInitialized>>
    /\ UNCHANGED <<initPc, cache, queries, dels, env, now, crawlVars, ingestVars>>

\* catch (error): process.exit(1)
ShutdownFailed(s) ==
    /\ proc.exit = "running"
    /\ proc.pc[s] = "rejected"
    /\ proc' = [proc EXCEPT !.pc[s] = "done", !.exit = "exit1"]
    /\ UNCHANGED <<isInitialized, initPc, isConnected, cache, queries, dels, env, now,
                   crawlVars, ingestVars>>

InitShutdown ==
    /\ InitCrawlIdle
    /\ InitIngestIdle
    /\ isInitialized \in BOOLEAN
    /\ initPc = IF isInitialized THEN "done" ELSE "start"
    /\ isConnected \in BOOLEAN
    /\ cache = {}
    /\ queries = [q \in QueryIds |-> NoQuery]
    /\ dels = [d \in DelIds |-> NoDel]
    /\ env = NoEnv
    /\ now = 0
    /\ proc = NoShutdown

NextShutdown ==
    \E s \in SignalIds :
        \/ Signal(s)
        \/ PoolEnded(s)
        \/ DbClosed(s)
        \/ RedisQuit(s)
        \/ ShutdownFailed(s)

SpecShutdown == InitShutdown /\ [][NextShutdown]_vars

(***************************************************************************)
(* C33: on SIGINT or SIGTERM the shutdown sequence closes every resource   *)
(* exactly once: the database pool is ended once, not twice, the Redis     *)
(* client is disconnected, and the process exits with code 0 whenever no   *)
(* resource was already broken.  Stated for one signal: no second handler  *)
(* has started.                                                            *)
(***************************************************************************)
C33_ShutdownClosesOnce ==
    (\E s \in SignalIds : \A t \in SignalIds \ {s} : proc.pc[t] = "idle") =>
        /\ proc.poolEnds <= 1
        /\ proc.quits <= 1
        /\ (proc.exit # "running" /\ ~ proc.broken) =>
              /\ proc.exit = "exit0"
              /\ proc.poolEnds = 1
              /\ ~ isConnected

(***************************************************************************)
(* Queries for texts made of a letter, a digit and the separator of the    *)
(* key, with a topK of one and of two digits, made one after another by an *)
(* initialised agent with a connected cache.                               *)
(***************************************************************************)
KeyTexts == {<<"x">>, <<"x", "1">>, <<"x", ":", "1">>}
KeyTopKs == {1, 11}

KeyStart ==
    \E text \in KeyTexts, topK \in KeyTopKs :
        QueryCall(1, text, topK, DefaultThreshold, TRUE)

NextKey ==
    \/ Expire
    \/ KeyStart
    \/ QueryRun(1)
    \/ QueryConsumed(1)

SpecKey == InitWarm /\ [][NextKey]_vars

(***************************************************************************)
(* C34: distinct (queryText, topK) pairs never share a cache key, also     *)
(* when the text contains ':' characters: the key determines the pair, so  *)
(* a query never receives the cached result of a different text or a       *)
(* different topK.                                                         *)
(***************************************************************************)
C34_KeyDeterminesTextAndTopK ==
    /\ \A t1 \in KeyTexts, t2 \in KeyTexts, k1 \in KeyTopKs, k2 \in KeyTopKs :
          cacheKey(t1, k1) = cacheKey(t2, k2) => t1 = t2 /\ k1 = k2
    /\ \A e \in cache :
          /\ e.key = cacheKey(e.by.result.query, e.by.topK)
          /\ (queries[1].pc # "idle" /\ e.key = queries[1].key) =>
                /\ e.by.result.query = queries[1].text
                /\ e.by.topK = queries[1].topK
    /\ queries[1].hit => queries[1].result.query = queries[1].text

\* a query for "x:1" with topK 1 was answered from the cache while the cache
\* held the entries of "x" with topK 11 and of "x1" with topK 1
C34_Witness ==
    /\ queries[1].hit
    /\ queries[1].text = <<"x", ":", "1">>
    /\ queries[1].topK = 1
    /\ \E e \in cache : e.by.result.query = <<"x">> /\ e.by.topK = 11
    /\ \E e \in cache : e.by.result.query = <<"x", "1">> /\ e.by.topK = 1

(***************************************************************************)
(* Operations of one RagAgent started while it is not initialised.  Each   *)
(* call q that finds isInitialized false awaits its own initialize() and   *)
(* then goes on as a query; the log of the call tells what it ran.         *)
(***************************************************************************)
StartupIds == {1, 2}

\* if (!this.isInitialized) await this.initialize(): the call enters the body
\* of initialize up to  await redisCache.connect(),  which creates a client
\* and connects it unless isConnected
OpStart(q) ==
    /\ queries[q].pc = "idle"
    /\ ~ isInitialized
    /\ queries' = [queries EXCEPT ![q] =
          [NoQuery EXCEPT !.pc = "connect", !.text = QueryX,
                          !.threshold = DefaultThreshold,
                          !.log = IF isConnected THEN <<"init">>
                                  ELSE <<"init", "createClient">>]]
    /\ UNCHANGED <<isInitialized, initPc, isConnected, cache, dels, env, now, proc,
                   crawlVars, ingestVars>>

\* redisCache.connect() of call q has settled: isConnected = true, or false
\* in its catch; the call goes on to embeddingService.initialize()
InitConnected(q) ==
    /\ queries[q].pc = "connect"
    /\ IF Last(queries[q].log) = "createClient"
       THEN \E ok \in BOOLEAN : isConnected' = ok
       ELSE UNCHANGED isConnected
    /\ queries' = [queries EXCEPT ![q] = [@ EXCEPT !.pc = "rest", !.log = Append(@, "load")]]
    /\ UNCHANGED <<isInitialized, initPc, cache, dels, env, now, proc,
                   crawlVars, ingestVars>>

\* embeddingService.initialize() and databaseService.initializeSchema() of
\* call q have settled: this.isInitialized = true and the operation goes on
\* to its cache key, or the error is thrown to the caller
InitRest(q) ==
    /\ queries[q].pc = "rest"
    /\ \/ /\ isInitialized' = TRUE
          /\ queries' = [queries EXCEPT ![q] =
                [@ EXCEPT !.pc = "get",
                          !.key = cacheKey(queries[q].text, queries[q].topK)]]
       \/ /\ queries' = [queries EXCEPT ![q] =
                [@ EXCEPT !.pc = "failed", !.ret = "error", !.err = "init"]]
          /\ UNCHANGED isInitialized
    /\ UNCHANGED <<initPc, isConnected, cache, dels, env, now, proc,
                   crawlVars, ingestVars>>

InitStartup ==
    /\ InitCrawlIdle
    /\ provider \in {"local", "openai"}
    /\ maxBatchSize = 1
    /\ calls = [k \in CallIds |-> NoCall]
    /\ tool = NoTool
    /\ documents = Corpus(MaxCorpus, provider).docs
    /\ embeddings = Corpus(MaxCorpus, provider).embs
    /\ docSeq = MaxCorpus
    /\ isInitialized = FALSE
    /\ initPc = "start"
    /\ isConnected = FALSE
    /\ cache = {}
    /\ env = NoEnv
    /\ now = 0
    /\ proc = NoShutdown
    /\ queries = [q \in QueryIds |-> NoQuery]
    /\ dels = [d \in DelIds |-> NoDel]

NextStartup ==
    \E q \in StartupIds :
        \/ OpStart(q)
        \/ InitConnected(q)
        \/ InitRest(q)
        \/ QueryCall(q, QueryX, 1, DefaultThreshold, TRUE)
        \/ QueryCacheGet(q)
        \/ QueryEmbed(q)
        \/ QuerySearch(q)
        \/ QueryCacheSet(q)
        \/ QueryConsumed(q)

SpecStartup == InitStartup /\ [][NextStartup]_vars

\* the calls that have entered the body of initialize
C35_Initialising == {q \in StartupIds : queries[q].log # <<>> /\ queries[q].log[1] = "init"}

(***************************************************************************)
(* C35: when several operations are started concurrently before the        *)
(* initialisation has completed, the initialisation body (Redis connect,   *)
(* model load, schema creation) runs at most once, and no operation goes   *)
(* on to embedding or store calls before the initialisation has completed  *)
(* successfully.  Stated while no initialisation has failed: a failed one  *)
(* is retried by the next operation.                                       *)
(***************************************************************************)
C35_InitialisesOnce ==
    /\ (\A q \in StartupIds : queries[q].err # "init") =>
          Cardinality(C35_Initialising) <= 1
    /\ \A q \in StartupIds :
          queries[q].pc \in {"get", "embed", "search", "set", "returned"} => isInitialized

\* the part of C35 that holds: no operation goes on before the
\* initialisation has completed, and a call whose initialisation failed
\* has run nothing else
C35_NoOperationBeforeInitialised ==
    \A q \in StartupIds :
        /\ queries[q].pc \in {"get", "embed", "search", "set", "returned"} => isInitialized
        /\ queries[q].err = "init" => queries[q].pc = "failed" /\ queries[q].key = <<>>

(***************************************************************************)
(* indexWebsite over a site of two pages, A linking to itself and to B,    *)
(* where a page may hold no text at all.                                   *)
(***************************************************************************)
TextlessSites ==
    {[u \in Urls \cup {BadSeed} |->
         IF u = PageA THEN ra ELSE IF u = PageB THEN rb ELSE NullResp] :
            ra \in {PageResp(<<PageA, PageB>>), TextlessResp(<<PageA, PageB>>)},
            rb \in {NullResp, PageResp(<<>>), TextlessResp(<<>>)}}

InitTextless ==
    /\ InitCrawlCommon
    /\ InitQueryIdle
    /\ InitStore
    /\ site \in TextlessSites
    /\ seed = [c \in CrawlIds |-> PageA]
    /\ opts = [c \in CrawlIds |-> IndexOptions]
    /\ provider \in {"local", "openai"}
    /\ maxBatchSize \in 1..MaxBatchBound
    /\ tool = NoTool
    /\ calls = [k \in CallIds |-> IF k = 1 THEN IndexCall ELSE NoCall]

SpecTextless == InitTextless /\ [][NextIndex]_vars

\* the crawled pages that hold no text
C36_TextlessPages ==
    {i \in 1..Len(results[1]) : IsBlank(pagesToDocuments(results[1])[i].content)}

(***************************************************************************)
(* C36: every document indexWebsite builds from a crawled page is accepted *)
(* by the non-empty-content check of the ingest path: a fetched page whose *)
(* title and body are both empty does not make addDocuments reject the     *)
(* batch, so the other crawled pages are indexed.  A failure of the        *)
(* embedding provider or of the store is not counted.                      *)
(***************************************************************************)
C36_TextlessPageDoesNotRejectBatch ==
    (IndexSettled /\ results[1] # <<>> /\ calls[1].err \notin {"provider", "store"}) =>
        /\ IndexOutcome.status = "ok"
        /\ \A i \in 1..Len(results[1]) :
              i \notin C36_TextlessPages =>
                  DocRow(IndexOutcome.documentIds[i],
                         pagesToDocuments(results[1])[i], 1) \in documents

\* the part of C36 that holds: with the OpenAI provider, which has no such
\* check, and when every crawled page holds text, the batch is not rejected
C36_RejectedOnlyForTextlessPageLocally ==
    (IndexSettled /\ calls[1].err = "empty" /\ results[1] # <<>>) =>
        provider = "local" /\ C36_TextlessPages # {}

(***************************************************************************)
(* Two crawls on the one FirecrawlService, the second called after the     *)
(* first has returned.                                                     *)
(***************************************************************************)
InitSeq ==
    /\ InitCrawlCommon
    /\ InitIngestIdle
    /\ InitQueryIdle
    /\ site \in ConcSites
    /\ seed \in [CrawlIds -> {PageA, PageB}]
    /\ opts \in [CrawlIds -> ConcOptions]

\* crawl 1 has returned
FirstReturned == cpc[1] = "done"

NextSeq ==
    \/ CrawlStart(1)
    \/ LoopExit(1)
    \/ DequeueSkip(1)
    \/ DequeueFetch(1)
    \/ FetchDone(1)
    \/ DelayDone(1)
    \/ FirstReturned /\ CrawlStart(2)
    \/ LoopExit(2)
    \/ DequeueSkip(2)
    \/ DequeueFetch(2)
    \/ FetchDone(2)
    \/ DelayDone(2)

SpecSeq == InitSeq /\ [][NextSeq]_vars

(***************************************************************************)
(* C37: crawl runs executed one after another on the same FirecrawlService *)
(* are independent: the visited set is empty at the start of each run, so  *)
(* the pages a run returns depend only on its seed, its options and the    *)
(* site, never on the URLs visited by an earlier run.                      *)
(***************************************************************************)
C37_SequentialRunsIndependent ==
    \A c \in CrawlIds :
        /\ (cpc[c] = "loop" /\ clog[c] = <<>>) => visitedUrls = {}
        /\ cpc[c] = "done" => results[c] = RunAlone(seed[c], opts[c], site)

\* the second run has returned pages, its seed among them, although the
\* first run had visited that seed
C37_Witness ==
    /\ cpc[2] = "done"
    /\ results[2] # <<>>
    /\ \E i \in 1..Len(results[1]) : results[1][i].url = seed[2]

(***************************************************************************)
(* C38: in every state of a crawl with maxDepth >= 0, every task in the    *)
(* queue has 0 <= depth <= maxDepth and a URL whose hostname is the        *)
(* seed's, the depths do not decrease from the head of the queue to its    *)
(* tail, and every returned page's URL is in the visited set; so the       *)
(* 'depth > maxDepth' skip is never taken.                                 *)
(***************************************************************************)
C38_QueueInvariants ==
    LET q == queue[1]
    IN  /\ opts[1].maxDepth >= 0
        /\ \A i \in 1..Len(q) :
              /\ 0 <= q[i].depth
              /\ q[i].depth <= opts[1].maxDepth
              /\ ValidUrl(seed[1]) => Hostname(q[i].url) = Hostname(seed[1])
        /\ \A i \in 1..Len(q), j \in 1..Len(q) : i <= j => q[i].depth <= q[j].depth
        /\ \A i \in 1..Len(results[1]) : results[1][i].url \in visitedUrls
        /\ (q # <<>> /\ SkipTask(Head(q), visitedUrls, opts[1])) =>
              SkipTaskNoDepth(Head(q), visitedUrls, opts[1])

\* after a page at depth 1 the queue holds tasks of two depths, the deeper
\* ones behind
C38_Witness ==
    /\ Len(queue[1]) >= 2
    /\ queue[1][1].depth < queue[1][Len(queue[1])].depth
    /\ queue[1][Len(queue[1])].depth = opts[1].maxDepth
    /\ Len(results[1]) >= 2

(***************************************************************************)
(* generateEmbeddings of the local provider alone, called by addDocuments  *)
(* as call 1, for every value of MAX_BATCH_SIZE from 0 on.  The loop goes  *)
(* on by itself: each round ends at an await that settles.                 *)
(***************************************************************************)
InitBatch ==
    /\ InitCrawlIdle
    /\ InitQueryIdle
    /\ InitStore
    /\ tool = NoTool
    /\ provider = "local"
    /\ maxBatchSize \in 0..MaxBatchBound
    /\ \E batch \in SeqsUpTo({DocX, DocY, DocBlank}, MaxTexts) :
          calls = [k \in CallIds |->
                     IF k = 1 THEN NewCall("addDocuments", batch) ELSE NoCall]

SpecBatch == InitBatch /\ [][NextEmbed]_vars

SpecBatchFair == SpecBatch /\ WF_vars(NextEmbed)

(***************************************************************************)
(* C39: the local provider's generateEmbeddings terminates for every       *)
(* non-empty list of texts and every integer configured as MAX_BATCH_SIZE, *)
(* 0 included: the index of the chunk loop grows in every round.           *)
(***************************************************************************)
C39_GenerateEmbeddingsTerminates ==
    calls[1].docs # <<>> => <>(calls[1].pc # "embed")

\* the part of C39 that holds: with a ceiling of 1 or more the loop ends
C39_TerminatesForPositiveCeiling ==
    (calls[1].docs # <<>> /\ maxBatchSize >= 1) => <>(calls[1].pc # "embed")

Spec == SpecCrawl
====
